---- MODULE Spec2Model ----
(***************************************************************************)
(* A model of gpu-video's resource lifecycle layer:                        *)
(*   - src/src/buffer_pool.rs: BufferPool, PoolInner, PooledFrame          *)
(*   - src/src/support/ffmpeg_hw.rs: the process-wide DEVICES cache        *)
(* Threads run the pool's methods step by step; a step is one critical     *)
(* section of one mutex or one factory call.                               *)
(***************************************************************************)
EXTENDS Integers, Sequences, FiniteSets, Bags, TLC

\* ---------------------------------------------------------------- bounds
NumThreads == 2
MaxBufs == 2
MaxCapacity == 1

Threads == 1..NumThreads
Bufs == 1..MaxBufs

\* ---------------------------------------------------------------- Option<T>
None == <<>>
Some(x) == <<x>>
IsSome(o) == o # <<>>
Unwrap(o) == o[1]

\* ---------------------------------------------------------------- BufKey
Widths == {1920}
Heights == {1080}
Strides == {0, 7680}
Formats == {"bgra"}

BufKey(w, h, s, f) == [width |-> w, height |-> h, stride |-> s, format |-> f]

Keys == {BufKey(w, h, s, f) : w \in Widths, h \in Heights, s \in Strides, f \in Formats}

\* impl PartialEq for BufKey, with a comparison that leaves the stride out
BufKeyEqNoStride(a, b) ==
    /\ a.width = b.width
    /\ a.height = b.height
    /\ a.format = b.format

\* impl PartialEq for BufKey
BufKeyEq(a, b) ==
    /\ a.width = b.width
    /\ a.height = b.height
    /\ a.stride = b.stride
    /\ a.format = b.format

\* ---------------------------------------------------------------- state
VARIABLES
    capacity_per_key,   \* PoolInner.capacity_per_key
    poolAlive,          \* a BufferPool value (an Arc<PoolInner>) is still held by a caller
    innerAlive,         \* PoolInner has not been dropped
    buckets,            \* PoolInner.buckets: HashMap<BufKey, Vec<FrameBuffer>>
    bucketsLock,        \* holder of the buckets mutex
    factoryLock,        \* holder of the factory mutex
    made,               \* factory: made[b] is the FrameBuffer key of the b-th created buffer
    freeCnt,            \* factory: freeCnt[b] is the number of free(b) calls
    live,               \* the PooledFrame values the callers hold (a bag of them)
    pc,                 \* each thread's position
    self,               \* the PooledFrame a thread's method has consumed (`self`)
    tbuf,               \* a thread's local `buf`
    tpool,              \* a thread's local `pool` (an Arc<PoolInner>) is held
    tkey,               \* a thread's local `key` in get
    tmode,              \* the method that consumed self: release, drop or into_inner
    settles,            \* history: by how much self's return grew its bucket and the free count
    returned,           \* history: a handle of this key was returned and none taken since
    taken               \* buffers that left the pool through into_inner

poolVars == <<capacity_per_key, poolAlive, innerAlive, buckets, bucketsLock, factoryLock,
              made, freeCnt, live, pc, self, tbuf, tpool, tkey, tmode, settles, returned,
              taken>>

VARIABLES
    devices,            \* DEVICES: HashMap<u64, HWDevice>
    devLock,            \* holder of the DEVICES mutex
    nativeMade,         \* how many native contexts av_hwdevice_ctx_create has made, by
                        \* device type and device name
    dpc,                \* each thread's position in a device-cache function
    dcall,              \* the running call: its arguments and its loop index
    dres,               \* what the thread's call returns
    hwOpen              \* how the caller of init_device_for_decoding opens its decoder

devVars == <<devices, devLock, nativeMade, dpc, dcall, dres, hwOpen>>

VARIABLES
    backend,            \* Decoder.inner: which DecoderBackend was opened
    frame_rate,         \* BrawDecoder / R3dDecoder .frame_rate, as <<numerator, denominator>>
    frame_count,        \* BrawDecoder / R3dDecoder .frame_count
    current_frame,      \* BrawDecoder / R3dDecoder .current_frame
    input,              \* FfmpegDecoder.context: the container (its streams and packets)
    srcPos,             \* FfmpegDecoder.context: the next packet av_read_frame returns
    current_packet,     \* FfmpegDecoder.current_packet (None: the empty packet)
    packets_ended,      \* FfmpegDecoder.packets_ended
    decode,             \* FfmpegDecoder.stream_state[s].info.decode
    decoder,            \* FfmpegDecoder.stream_state[s].decoder is Some
    engQ,               \* the engine of stream s: the packets it holds undelivered
    engEof,             \* the engine of stream s was sent send_eof
    fpc,                \* position inside FfmpegDecoder::next_frame
    fetch_new_packet,   \* the local of next_frame
    faults,             \* failures of the source and the engines so far
    ret,                \* what the last call on the decoder returned
    sought,             \* history: the timestamp of a seek that returned Ok and that no
                        \* next_frame has followed yet
    exhausted,          \* history: a next_frame returned Ok(None) and no seek returned Ok since
    lastOut,            \* history: the unit of the last frame next_frame delivered for stream
                        \* s, with no seek and no failed call since
    owed,               \* history: the units read from the container for stream s, in the
                        \* order read, whose frames were not delivered yet (None once the
                        \* engine of s failed)
    submits             \* history: how many times the held unit was passed to send_packet

idxVars == <<frame_rate, frame_count, current_frame>>

ffVars == <<input, srcPos, current_packet, packets_ended, decode, decoder, engQ, engEof,
            fpc, fetch_new_packet, faults>>

decVars == <<backend, idxVars, ffVars, ret, sought, exhausted, lastOut, owed, submits>>

VARIABLES
    features,           \* the cargo features of the build
    new_input,          \* Decoder::new: `input`
    new_options,        \* Decoder::new: `options.custom_options`
    npc,                \* position inside Decoder::new
    filename,           \* Decoder::new: the local `filename`
    new_ret             \* what Decoder::new returned

newVars == <<features, new_input, new_options, npc, filename, new_ret>>

VARIABLES
    info                \* what the last call of get_video_info returned

VARIABLES
    vframe,             \* a video frame a decoder returned
    cpu_res,            \* what the last get_cpu_buffers on it returned
    gpu_res,            \* what the last get_gpu_texture on it returned
    cpu_ok,             \* history: a get_cpu_buffers on it returned Ok
    gpu_ok              \* history: a get_gpu_texture on it returned Some

frameVars == <<vframe, cpu_res, gpu_res, cpu_ok, gpu_ok>>

vars == <<poolVars, devVars, decVars, newVars, info, frameVars>>

\* ---------------------------------------------------------------- helpers
EmptyMap == [e \in {} |-> <<>>]

DefaultKey == CHOOSE k \in Keys : TRUE

\* PooledFrame { pool: Some(..), key, buf: Some(buf), return_on_drop: true }
NewPooledFrame(key, b) == [pool |-> TRUE, key |-> key, buf |-> Some(b),
                           return_on_drop |-> TRUE]

One(r) == SetToBag({r})

Handles == BagToSet(live)

\* the threads inside get (they borrow the BufferPool)
InGet == {t \in Threads : pc[t] \in {"get_miss", "get_creating", "get_unwind", "get_err"}}

\* the threads inside get that are about to call create
Creating == {t \in Threads : pc[t] \in {"get_miss", "get_creating"}}

\* the PooledFrame values that exist: the callers' and the ones inside a method
HeldBy(b) ==
    LET inLive == {r \in Handles : r.buf = Some(b)}
        SumCopies[S \in SUBSET inLive] ==
            IF S = {} THEN 0
            ELSE LET r == CHOOSE x \in S : TRUE IN CopiesIn(r, live) + SumCopies[S \ {r}]
    IN  SumCopies[inLive]
        + Cardinality({t \in Threads : IsSome(self[t]) /\ Unwrap(self[t]).buf = Some(b)})

\* strong count of the Arc<PoolInner>
RefCount ==
    LET withPool == {r \in Handles : r.pool}
        SumCopies[S \in SUBSET withPool] ==
            IF S = {} THEN 0
            ELSE LET r == CHOOSE x \in S : TRUE IN CopiesIn(r, live) + SumCopies[S \ {r}]
    IN  (IF poolAlive THEN 1 ELSE 0)
        + SumCopies[withPool]
        + Cardinality({t \in Threads : IsSome(self[t]) /\ Unwrap(self[t]).pool})
        + Cardinality({t \in Threads : tpool[t]})

\* HashMap lookup: the entries whose key equals `key`
FindEntry(bk, key) == {e \in DOMAIN bk : BufKeyEq(e, key)}

\* buckets.entry(key).or_default()
EntryOrDefault(bk, key) ==
    IF FindEntry(bk, key) # {} THEN bk
    ELSE [e \in DOMAIN bk \cup {key} |-> IF e \in DOMAIN bk THEN bk[e] ELSE <<>>]

\* Vec::pop that reads the last element and leaves it in the vector
VecPeek(vec) ==
    IF vec = <<>> THEN [rest |-> vec, item |-> None]
    ELSE [rest |-> vec, item |-> Some(vec[Len(vec)])]

\* Vec::pop
VecPop(vec) ==
    IF vec = <<>> THEN [rest |-> vec, item |-> None]
    ELSE [rest |-> SubSeq(vec, 1, Len(vec) - 1), item |-> Some(vec[Len(vec)])]

\* a push that drops the buffer on the floor
VecPushNothing(vec, b) == vec

\* Vec::push
VecPush(vec, b) == Append(vec, b)

\* the capacity test with <= for <
HasRoomOffByOne(len) == len <= capacity_per_key

\* the capacity test that never keeps a buffer
HasRoomNever(len) == FALSE

\* entry.len() < pool.capacity_per_key
HasRoom(len) == len < capacity_per_key

\* BufferFactory::create: a new FrameBuffer { width, height, stride, format, inner }
FactoryCreate(mk, w, h, s, f) == Append(mk, BufKey(w, h, s, f))

\* a free that drops the buffer without telling the factory
FactoryFreeNothing(fc, b) == fc

\* BufferFactory::free
FactoryFree(fc, b) == [fc EXCEPT ![b] = @ + 1]

\* the places <<key, index>> of the bucket map
Places(bk) == UNION {{<<e, i>> : i \in DOMAIN bk[e]} : e \in DOMAIN bk}

\* the places of the bucket map that hold buffer b
IdleOf(bk, b) == {p \in Places(bk) : bk[p[1]][p[2]] = b}

\* a teardown that passes every drained buffer to free twice
DrainFreeTwice(bk, fc) == [b \in Bufs |-> fc[b] + 2 * Cardinality(IdleOf(bk, b))]

\* a teardown that clears the map without freeing
DrainFreeNothing(bk, fc) == fc

\* Drop for PoolInner: for (_key, vec) in buckets.drain() { for buf in vec { factory.free(buf) } }
DrainFree(bk, fc) == [b \in Bufs |-> fc[b] + Cardinality(IdleOf(bk, b))]

\* the Arc<PoolInner> released by a step was the last one: PoolInner::drop runs
PoolInnerDrop(last) ==
    /\ innerAlive' = IF last THEN FALSE ELSE innerAlive
    /\ buckets' = IF last THEN EmptyMap ELSE buckets
    /\ freeCnt' = IF last THEN DrainFree(buckets, freeCnt) ELSE freeCnt
    /\ returned' = IF last THEN [k \in Keys |-> FALSE] ELSE returned

\* ---------------------------------------------------------------- Init
\* BufferPool::new(capacity_per_key, factory)
PoolInit ==
    /\ capacity_per_key \in 0..MaxCapacity
    /\ poolAlive = TRUE
    /\ innerAlive = TRUE
    /\ buckets = EmptyMap
    /\ bucketsLock = None
    /\ factoryLock = None
    /\ made = <<>>
    /\ freeCnt = [b \in Bufs |-> 0]
    /\ live = EmptyBag
    /\ pc = [t \in Threads |-> "idle"]
    /\ self = [t \in Threads |-> None]
    /\ tbuf = [t \in Threads |-> None]
    /\ tpool = [t \in Threads |-> FALSE]
    /\ tkey = [t \in Threads |-> DefaultKey]
    /\ tmode = [t \in Threads |-> "none"]
    /\ settles = [t \in Threads |-> 0]
    /\ returned = [k \in Keys |-> FALSE]
    /\ taken = {}

\* ---------------------------------------------------------------- BufferPool::get
\* lines 107-122, and 124-136 when the bucket had a buffer
GetPop(t, k) ==
    /\ pc[t] = "idle"
    /\ poolAlive
    /\ bucketsLock = None
    /\ LET es == FindEntry(buckets, k)
           e == CHOOSE x \in es : TRUE
           p == IF es = {} THEN [rest |-> <<>>, item |-> None] ELSE VecPop(buckets[e])
       IN  /\ IF IsSome(p.item) THEN TRUE ELSE Len(made) + Cardinality(Creating) < MaxBufs
           /\ buckets' = IF es = {} THEN buckets ELSE [buckets EXCEPT ![e] = p.rest]
           /\ returned' = [returned EXCEPT ![k] = FALSE]
           /\ IF IsSome(p.item)
              THEN /\ live' = live (+) One(NewPooledFrame(k, Unwrap(p.item)))
                   /\ UNCHANGED <<pc, tkey>>
              ELSE /\ pc' = [pc EXCEPT ![t] = "get_miss"]
                   /\ tkey' = [tkey EXCEPT ![t] = k]
                   /\ UNCHANGED live
    /\ UNCHANGED <<capacity_per_key, poolAlive, innerAlive, bucketsLock, factoryLock, made,
                   freeCnt, self, tbuf, tpool, tmode, settles, taken>>

\* line 126: self.inner.factory.lock()
GetCreateLock(t) ==
    /\ pc[t] = "get_miss"
    /\ factoryLock = None
    /\ factoryLock' = Some(t)
    /\ pc' = [pc EXCEPT ![t] = "get_creating"]
    /\ UNCHANGED <<capacity_per_key, poolAlive, innerAlive, buckets, bucketsLock, made,
                   freeCnt, live, self, tbuf, tpool, tkey, tmode, settles, returned, taken>>

\* lines 126-136: create(width, height, stride, &format) returns a buffer
GetCreateOk(t) ==
    /\ pc[t] = "get_creating"
    /\ LET k == tkey[t]
           mk == FactoryCreate(made, k.width, k.height, k.stride, k.format)
       IN  /\ made' = mk
           /\ live' = live (+) One(NewPooledFrame(k, Len(mk)))
    /\ factoryLock' = None
    /\ tkey' = [tkey EXCEPT ![t] = DefaultKey]
    /\ pc' = [pc EXCEPT ![t] = "idle"]
    /\ UNCHANGED <<capacity_per_key, poolAlive, innerAlive, buckets, bucketsLock, freeCnt,
                   self, tbuf, tpool, tmode, settles, returned, taken>>

\* How a get whose factory cannot make the buffer leaves: create returns FrameBuffer and
\* get returns PooledFrame, neither is a Result, so the factory can only panic
\* (decoder/braw.rs 56-59) and the panic unwinds through get.
GetFailureExit == "get_unwind"

\* line 126 with a factory that cannot make the buffer: the factory guard is released by
\* the unwinding and get returns nothing.
GetCreateFail(t) ==
    /\ pc[t] = "get_creating"
    /\ factoryLock' = None
    /\ tkey' = [tkey EXCEPT ![t] = DefaultKey]
    /\ pc' = [pc EXCEPT ![t] = GetFailureExit]
    /\ UNCHANGED <<capacity_per_key, poolAlive, innerAlive, buckets, bucketsLock, made,
                   freeCnt, live, self, tbuf, tpool, tmode, settles, returned, taken>>

\* the get has left (with the panic, or with an Err were it to return one): the thread
\* of the caller, or the one that takes its place, goes on
GetLeave(t) ==
    /\ pc[t] \in {"get_unwind", "get_err"}
    /\ pc' = [pc EXCEPT ![t] = "idle"]
    /\ UNCHANGED <<capacity_per_key, poolAlive, innerAlive, buckets, bucketsLock, factoryLock,
                   made, freeCnt, live, self, tbuf, tpool, tkey, tmode, settles, returned,
                   taken>>

\* ---------------------------------------------------------------- returning a buffer
\* `if let (Some(pool), Some(buf)) = (self.pool.take(), self.buf.take())` of release
\* (line 217) and of drop (line 238) on the handle r: both fields are emptied; when both
\* held a value the thread goes on to the bucket, otherwise the tuple is dropped as it
\* is (the Arc is released, a buffer without a pool is dropped without the factory).
TakeBoth(t, r, mode) ==
    LET both == r.pool /\ IsSome(r.buf)
    IN  /\ self' = [self EXCEPT ![t] = Some([r EXCEPT !.pool = FALSE, !.buf = None])]
        /\ tmode' = [tmode EXCEPT ![t] = mode]
        /\ tpool' = [tpool EXCEPT ![t] = r.pool]
        /\ tbuf' = [tbuf EXCEPT ![t] = IF both THEN r.buf ELSE None]
        /\ taken' = IF ~both /\ IsSome(r.buf) THEN taken \cup {Unwrap(r.buf)} ELSE taken
        /\ settles' = [settles EXCEPT ![t] = 0]
        /\ pc' = [pc EXCEPT ![t] = IF both THEN "ret_lock" ELSE "ret_arc"]

\* PooledFrame::release(mut self), line 217
Release(t, r) ==
    /\ pc[t] = "idle"
    /\ BagIn(r, live)
    /\ live' = live (-) One(r)
    /\ TakeBoth(t, r, "release")
    /\ UNCHANGED <<capacity_per_key, poolAlive, innerAlive, buckets, bucketsLock, factoryLock,
                   made, freeCnt, tkey, returned>>

\* Drop for PooledFrame, then the drop glue of its fields, for the handle r: with
\* return_on_drop the fields are taken as in release (lines 237-238); without it
\* Drop::drop does nothing and the drop glue drops pool and buf as they are (an Arc is
\* released, a buffer is dropped without the factory).
DropBody(t, r, last) ==
    IF r.return_on_drop
    THEN /\ TakeBoth(t, r, "drop")
         /\ UNCHANGED <<innerAlive, buckets, freeCnt, returned>>
    ELSE /\ PoolInnerDrop(r.pool /\ last)
         /\ taken' = IF IsSome(r.buf) THEN taken \cup {Unwrap(r.buf)} ELSE taken
         /\ self' = [self EXCEPT ![t] = None]
         /\ tmode' = [tmode EXCEPT ![t] = "none"]
         /\ pc' = [pc EXCEPT ![t] = "idle"]
         /\ settles' = [settles EXCEPT ![t] = 0]
         /\ UNCHANGED <<tpool, tbuf>>

\* a caller drops a PooledFrame it holds
DropHandle(t, r) ==
    /\ pc[t] = "idle"
    /\ BagIn(r, live)
    /\ live' = live (-) One(r)
    /\ DropBody(t, r, RefCount = 1)
    /\ UNCHANGED <<capacity_per_key, poolAlive, bucketsLock, factoryLock, made, tkey>>

\* lines 219-222 and 239-242: lock the buckets, find or make the entry, test the
\* capacity; with room the buffer is pushed and the guard released at the end of the
\* block, without room the thread keeps the buckets guard and goes for the factory.
ReturnLock(t) ==
    /\ pc[t] = "ret_lock"
    /\ bucketsLock = None
    /\ LET k == Unwrap(self[t]).key
           bk == EntryOrDefault(buckets, k)
           e == CHOOSE x \in FindEntry(bk, k) : TRUE
       IN  IF HasRoom(Len(bk[e]))
           THEN /\ buckets' = [bk EXCEPT ![e] = VecPush(@, Unwrap(tbuf[t]))]
                /\ tbuf' = [tbuf EXCEPT ![t] = None]
                /\ settles' = [settles EXCEPT ![t] = @ + Len(buckets'[e]) - Len(bk[e])]
                /\ returned' = [returned EXCEPT ![k] = TRUE]
                /\ pc' = [pc EXCEPT ![t] = "ret_arc"]
                /\ UNCHANGED bucketsLock
           ELSE /\ buckets' = bk
                /\ bucketsLock' = Some(t)
                /\ pc' = [pc EXCEPT ![t] = "ret_free_lock"]
                /\ UNCHANGED <<tbuf, settles, returned>>
    /\ UNCHANGED <<capacity_per_key, poolAlive, innerAlive, factoryLock, made, freeCnt,
                   live, self, tpool, tkey, tmode, taken>>

\* lines 224 and 244: pool.factory.lock(), with the buckets guard held
ReturnFreeLock(t) ==
    /\ pc[t] = "ret_free_lock"
    /\ factoryLock = None
    /\ factoryLock' = Some(t)
    /\ pc' = [pc EXCEPT ![t] = "ret_freeing"]
    /\ UNCHANGED <<capacity_per_key, poolAlive, innerAlive, buckets, bucketsLock, made,
                   freeCnt, live, self, tbuf, tpool, tkey, tmode, settles, returned, taken>>

\* a buckets guard that outlives the block and is still held when `pool` is dropped
GuardKept(guard) == guard

\* the buckets guard at the end of the `if let` block (lines 226, 246): a local of the
\* block, it is dropped there, before the binding `pool` of the pattern
GuardAtBlockEnd(guard) == None

\* lines 224 and 244: free(buf); the factory guard goes at the end of the statement,
\* the buckets guard at the end of the block
ReturnFree(t) ==
    /\ pc[t] = "ret_freeing"
    /\ freeCnt' = FactoryFree(freeCnt, Unwrap(tbuf[t]))
    /\ settles' = [settles EXCEPT ![t] = @ + freeCnt'[Unwrap(tbuf[t])] - freeCnt[Unwrap(tbuf[t])]]
    /\ returned' = [returned EXCEPT ![Unwrap(self[t]).key] = TRUE]
    /\ tbuf' = [tbuf EXCEPT ![t] = None]
    /\ factoryLock' = None
    /\ bucketsLock' = GuardAtBlockEnd(bucketsLock)
    /\ pc' = [pc EXCEPT ![t] = "ret_arc"]
    /\ UNCHANGED <<capacity_per_key, poolAlive, innerAlive, buckets, made, live, self,
                   tpool, tkey, tmode, taken>>

\* the end of the `if let` block: the local `pool` is dropped. In release
\* return_on_drop is then cleared (line 227) and `self` is about to go out of scope; in
\* drop, Drop::drop returns and the drop glue finds both fields empty.
ArcDrop(t) ==
    /\ pc[t] = "ret_arc"
    /\ PoolInnerDrop(tpool[t] /\ RefCount = 1)
    /\ tpool' = [tpool EXCEPT ![t] = FALSE]
    /\ IF tmode[t] = "release"
       THEN /\ self' = [self EXCEPT ![t] = Some([Unwrap(self[t]) EXCEPT !.return_on_drop = FALSE])]
            /\ pc' = [pc EXCEPT ![t] = "self_drop"]
            /\ UNCHANGED <<tmode, settles>>
       ELSE /\ self' = [self EXCEPT ![t] = None]
            /\ tmode' = [tmode EXCEPT ![t] = "none"]
            /\ settles' = [settles EXCEPT ![t] = 0]
            /\ pc' = [pc EXCEPT ![t] = "idle"]
    /\ UNCHANGED <<capacity_per_key, poolAlive, bucketsLock, factoryLock, made, live, tbuf,
                   tkey, taken>>

\* `self` goes out of scope at the end of release and of into_inner: Drop::drop runs on
\* it, then the drop glue
SelfDrop(t) ==
    /\ pc[t] = "self_drop"
    /\ DropBody(t, Unwrap(self[t]), RefCount = 1)
    /\ UNCHANGED <<capacity_per_key, poolAlive, bucketsLock, factoryLock, made, live, tkey>>

\* into_inner that hands out a copy of the buffer and leaves the handle as it was
IntoInnerKeep(r) == r

\* PooledFrame::into_inner(mut self), lines 211-212, on the handle's fields
IntoInnerTake(r) == [r EXCEPT !.return_on_drop = FALSE, !.buf = None]

\* PooledFrame::into_inner: the buffer is the caller's to keep
IntoInner(t, r) ==
    /\ pc[t] = "idle"
    /\ BagIn(r, live)
    /\ IsSome(r.buf)
    /\ live' = live (-) One(r)
    /\ self' = [self EXCEPT ![t] = Some(IntoInnerTake(r))]
    /\ taken' = taken \cup {Unwrap(r.buf)}
    /\ tmode' = [tmode EXCEPT ![t] = "into_inner"]
    /\ pc' = [pc EXCEPT ![t] = "self_drop"]
    /\ UNCHANGED <<capacity_per_key, poolAlive, innerAlive, buckets, bucketsLock, factoryLock,
                   made, freeCnt, tbuf, tpool, tkey, settles, returned>>

\* the caller drops its BufferPool (no get is running on it: get borrows it)
DropPool ==
    /\ poolAlive
    /\ InGet = {}
    /\ poolAlive' = FALSE
    /\ PoolInnerDrop(RefCount = 1)
    /\ UNCHANGED <<capacity_per_key, bucketsLock, factoryLock, made, live, pc, self, tbuf,
                   tpool, tkey, tmode, settles, taken>>

\* ---------------------------------------------------------------- the pool's steps
PossibleHandles == {[pool |-> TRUE, key |-> k, buf |-> Some(b), return_on_drop |-> TRUE] :
                    k \in Keys, b \in Bufs}

PoolNext ==
    \/ \E t \in Threads, k \in Keys : GetPop(t, k)
    \/ \E t \in Threads : GetCreateLock(t)
    \/ \E t \in Threads : GetCreateOk(t)
    \/ \E t \in Threads : GetCreateFail(t)
    \/ \E t \in Threads : GetLeave(t)
    \/ \E t \in Threads, r \in PossibleHandles : Release(t, r)
    \/ \E t \in Threads, r \in PossibleHandles : DropHandle(t, r)
    \/ \E t \in Threads, r \in PossibleHandles : IntoInner(t, r)
    \/ \E t \in Threads : ReturnLock(t)
    \/ \E t \in Threads : ReturnFreeLock(t)
    \/ \E t \in Threads : ReturnFree(t)
    \/ \E t \in Threads : ArcDrop(t)
    \/ \E t \in Threads : SelfDrop(t)
    \/ DropPool

\* ---------------------------------------------------------------- the device cache
\* ffi::AVHWDeviceType values
AV_HWDEVICE_TYPE_NONE == 0
AV_HWDEVICE_TYPE_VAAPI == 3
AV_HWDEVICE_TYPE_QSV == 5

DeviceTypes == {AV_HWDEVICE_TYPE_VAAPI, AV_HWDEVICE_TYPE_QSV}

\* the `device` argument: Option<&str>
DeviceNames == {None, Some(""), Some("plumless"), Some("buckeroo"), Some("cymosdx")}

\* the end of `for i in index..20`
HwConfigScanEnd == 20

\* an AVCodecHWConfig, and the null pointer avcodec_get_hw_config returns
HwConfig(ty) == [device_type |-> ty, pix_fmt |-> "hw"]
NullConfig == [device_type |-> AV_HWDEVICE_TYPE_NONE, pix_fmt |-> "null"]

\* the codecs of the model: their lists of hardware configurations
Codecs == { <<HwConfig(AV_HWDEVICE_TYPE_NONE), HwConfig(AV_HWDEVICE_TYPE_QSV)>>,
            <<HwConfig(AV_HWDEVICE_TYPE_VAAPI), HwConfig(AV_HWDEVICE_TYPE_QSV)>> }

\* index arguments of the model: the first entries, and one past the scanned range
MaxIndex == 1

Indexes == 0..MaxIndex \cup {HwConfigScanEnd}

\* native contexts one device type and name may get
MaxNative == 2

\* ffi::avcodec_get_hw_config(codec, i): the i-th configuration (from 0) or null
GetHwConfig(codec, i) == IF i + 1 <= Len(codec) THEN codec[i + 1] ELSE NullConfig

\* crc32fast::Hasher over dev_name.as_bytes(): the CRC-32 (IEEE) of the model's names
Crc32(str) ==
    CASE str = "" -> 0
      [] str = "2" -> 450215437
      [] str = "plumless" -> 1306201125
      [] str = "buckeroo" -> 1306201125
      [] str = "cymosdx" -> 2

\* lines 129-134: device_hash is 0 without a name, else the CRC-32 of the name
DeviceHash(device) == IF IsSome(device) THEN Crc32(Unwrap(device)) ELSE 0

\* lines 135 and 140: type_ as u64 + device_hash
DeviceKey(ty, device) == ty + DeviceHash(device)

\* an entry test that always finds the entry vacant
IsVacantAlways(devs, key) == TRUE

\* Entry::Vacant(e) = devices.entry(key)
IsVacant(devs, key) == key \notin DOMAIN devs

\* an insert that clears the map first
MapInsertAlone(devs, key, dev) == [k \in {key} |-> dev]

\* e.insert(dev)
MapInsert(devs, key, dev) == [k \in DOMAIN devs \cup {key} |-> IF k = key THEN dev ELSE devs[k]]

\* lines 118-126: entry i is examined further (not null, not of type NONE)
Usable(codec, i) ==
    /\ GetHwConfig(codec, i) # NullConfig
    /\ GetHwConfig(codec, i).device_type # AV_HWDEVICE_TYPE_NONE

\* a scan that starts at entry 0 whatever the index
NextConfigFromStart(codec, from) ==
    LET U == {i \in 0..(HwConfigScanEnd - 1) : Usable(codec, i)}
    IN  IF from >= HwConfigScanEnd \/ U = {} THEN HwConfigScanEnd
        ELSE CHOOSE i \in U : \A j \in U : i <= j

\* lines 116-126: the first i >= from, below 20, whose configuration is not null and
\* whose device type is not NONE; 20 when there is none
RECURSIVE NextConfig(_, _)
NextConfig(codec, from) ==
    IF from >= HwConfigScanEnd THEN HwConfigScanEnd
    ELSE IF GetHwConfig(codec, from) = NullConfig
            \/ GetHwConfig(codec, from).device_type = AV_HWDEVICE_TYPE_NONE
         THEN NextConfig(codec, from + 1)
         ELSE from

\* ffi::av_hwdevice_get_type_name(type)
TypeName(ty) ==
    CASE ty = AV_HWDEVICE_TYPE_VAAPI -> "vaapi"
      [] ty = AV_HWDEVICE_TYPE_QSV -> "qsv"
      [] OTHER -> ""

\* the locals of a call: `index` is the argument, `i` the loop variable, `failed` the
\* entries of this call whose from_type returned Err
NoCall == [kind |-> "none", index |-> 0, i |-> 0, codec |-> <<>>,
           type |-> AV_HWDEVICE_TYPE_NONE, device |-> None, failed |-> {}]

NoResult == [kind |-> "none"]

\* a scan without a device that ends in Err(CannotCreateGPUDecoding)
NoDeviceError(c) == [kind |-> "decoding", ok |-> FALSE, index |-> 0,
                     type |-> AV_HWDEVICE_TYPE_NONE, name |-> "",
                     device |-> c.device, ctx |-> None, refs |-> 0, pix_fmt |-> None]

\* line 146: Ok((0, AV_HWDEVICE_TYPE_NONE, String::new(), None))
NoDeviceResult(c) == [kind |-> "decoding", ok |-> TRUE, index |-> 0,
                      type |-> AV_HWDEVICE_TYPE_NONE, name |-> "",
                      device |-> c.device, ctx |-> None, refs |-> 0, pix_fmt |-> None]

DevInit ==
    /\ devices = EmptyMap
    /\ devLock = None
    /\ nativeMade = [ty \in DeviceTypes, dv \in DeviceNames |-> 0]
    /\ dpc = [t \in Threads |-> "idle"]
    /\ dcall = [t \in Threads |-> NoCall]
    /\ dres = [t \in Threads |-> NoResult]
    /\ hwOpen = [t \in Threads |-> "none"]

\* a container without streams and packets
NoInput == [media |-> <<>>, delay |-> <<>>, packets |-> <<>>, broken |-> 0]

\* the streams of a container, numbered from 0
StreamsOf(inp) == 0..(Len(inp.media) - 1)

\* no frame was delivered yet (the containers of the model have at most two streams)
NoOut == [x \in 0..1 |-> None]

\* nothing was read yet
NoneOwed == [x \in 0..1 |-> Some(<<>>)]

\* the last delivered units after next_frame returned r
AfterReturn(r) ==
    IF r.kind = "frame" THEN [lastOut EXCEPT ![r.stream] = Some(r.n)]
    ELSE IF r.kind \in {"err", "panic"} THEN NoOut
    ELSE lastOut

\* FfmpegDecoder::new, lines 221-258: one StreamInfo for each stream with decoder None
\* and decode true, the empty packet, packets_ended false
FfNew(inp) ==
    /\ input = inp
    /\ srcPos = 1
    /\ current_packet = None
    /\ packets_ended = FALSE
    /\ decode = [x \in StreamsOf(inp) |-> TRUE]
    /\ decoder = [x \in StreamsOf(inp) |-> FALSE]
    /\ engQ = [x \in StreamsOf(inp) |-> <<>>]
    /\ engEof = [x \in StreamsOf(inp) |-> FALSE]
    /\ fpc = "idle"
    /\ fetch_new_packet = FALSE
    /\ faults = 0

\* no decoder is opened
DecIdle ==
    /\ backend = "none"
    /\ FfNew(NoInput)
    /\ frame_rate = <<1, 1>>
    /\ frame_count = 0
    /\ current_frame = 0
    /\ ret = [kind |-> "none"]
    /\ sought = None
    /\ exhausted = FALSE
    /\ lastOut = NoOut
    /\ owed = NoneOwed
    /\ submits = 0

\* the loop of init_device_for_decoding goes to configuration number `from`
ScanFrom(t, c, from) ==
    LET i == NextConfig(c.codec, from)
    IN  IF i >= HwConfigScanEnd
        THEN /\ dres' = [dres EXCEPT ![t] = NoDeviceResult(c)]
             /\ dcall' = [dcall EXCEPT ![t] = c]
             /\ dpc' = [dpc EXCEPT ![t] = "dev_ret"]
        ELSE /\ dcall' = [dcall EXCEPT ![t] = [c EXCEPT !.i = i,
                                               !.type = GetHwConfig(c.codec, i).device_type]]
             /\ dres' = [dres EXCEPT ![t] = NoResult]
             /\ dpc' = [dpc EXCEPT ![t] = "dev_lock"]

\* init_device_for_decoding(index, codec, decoder_ctx, device), lines 115-127
InitDeviceForDecoding(t, index, codec, device) ==
    /\ dpc[t] = "idle"
    /\ ScanFrom(t, [kind |-> "decoding", index |-> index, i |-> index, codec |-> codec,
                    type |-> AV_HWDEVICE_TYPE_NONE, device |-> device, failed |-> {}],
                index)
    /\ hwOpen' = [hwOpen EXCEPT ![t] = "none"]
    /\ UNCHANGED <<devices, devLock, nativeMade>>

\* initialize_ctx(type_), line 75
InitializeCtx(t, ty) ==
    /\ dpc[t] = "idle"
    /\ dcall' = [dcall EXCEPT ![t] = [kind |-> "init_ctx", index |-> 0, i |-> 0,
                                      codec |-> <<>>, type |-> ty, device |-> None,
                                      failed |-> {}]]
    /\ dres' = [dres EXCEPT ![t] = NoResult]
    /\ dpc' = [dpc EXCEPT ![t] = "dev_lock"]
    /\ hwOpen' = [hwOpen EXCEPT ![t] = "none"]
    /\ UNCHANGED <<devices, devLock, nativeMade>>

\* lines 76-77 and 128-135: DEVICES.lock(), the key, the entry test
DevLock(t) ==
    /\ dpc[t] = "dev_lock"
    /\ devLock = None
    /\ devLock' = Some(t)
    /\ LET c == dcall[t]
       IN  dpc' = [dpc EXCEPT ![t] =
                     IF IsVacant(devices, DeviceKey(c.type, c.device)) THEN "dev_creating"
                     ELSE "dev_get"]
    /\ UNCHANGED <<devices, nativeMade, dcall, dres, hwOpen>>

\* HWDevice::from_type, lines 26-42, with the context made: the device is inserted
\* (lines 81 and 137)
DevCreateOk(t) ==
    /\ dpc[t] = "dev_creating"
    /\ LET c == dcall[t]
           n == nativeMade[c.type, c.device] + 1
       IN  /\ n <= MaxNative
           /\ nativeMade' = [nativeMade EXCEPT ![c.type, c.device] = n]
           /\ devices' = MapInsert(devices, DeviceKey(c.type, c.device),
                                   [type_ |-> c.type, device_name |-> c.device,
                                    device_ref |-> <<c.type, c.device, n>>])
    /\ dpc' = [dpc EXCEPT ![t] = "dev_get"]
    /\ UNCHANGED <<devLock, dcall, dres, hwOpen>>

\* HWDevice::from_type, lines 43-46: av_hwdevice_ctx_create failed, nothing is inserted
DevCreateFail(t) ==
    /\ dpc[t] = "dev_creating"
    /\ dpc' = [dpc EXCEPT ![t] = "dev_get"]
    /\ dcall' = [dcall EXCEPT ![t].failed = @ \cup {dcall[t].i}]
    /\ UNCHANGED <<devices, devLock, nativeMade, dres, hwOpen>>

\* lines 140-143: with the device in the map its context is attached to the decoder and
\* the call returns; without it the guard is released and the loop goes on. In
\* initialize_ctx (line 84) the guard is released and the call returns.
DevGet(t) ==
    /\ dpc[t] = "dev_get"
    /\ devLock' = None
    /\ LET c == dcall[t]
           key == DeviceKey(c.type, c.device)
       IN  IF c.kind = "init_ctx"
           THEN /\ dres' = [dres EXCEPT ![t] = [kind |-> "init_ctx"]]
                /\ dcall' = dcall
                /\ dpc' = [dpc EXCEPT ![t] = "dev_ret"]
           ELSE IF key \in DOMAIN devices
                THEN /\ dres' = [dres EXCEPT ![t] =
                                   [kind |-> "decoding", ok |-> TRUE, index |-> c.i,
                                    type |-> c.type,
                                    name |-> TypeName(devices[key].type_),
                                    device |-> c.device,
                                    ctx |-> Some(devices[key].device_ref), refs |-> 1,
                                    pix_fmt |-> Some(GetHwConfig(c.codec, c.i).pix_fmt)]]
                     /\ dcall' = dcall
                     /\ dpc' = [dpc EXCEPT ![t] = "dev_ret"]
                ELSE ScanFrom(t, c, c.i + 1)
    /\ UNCHANGED <<devices, nativeMade, hwOpen>>

\* the caller has the result. FfmpegDecoder::next_frame (ffmpeg.rs 133-138) applies `?`
\* to it and goes on to open the decoder, which decodes in hardware when a device
\* context was attached and in software when none was.
DevReturn(t) ==
    /\ dpc[t] = "dev_ret"
    /\ hwOpen' = [hwOpen EXCEPT ![t] =
                    IF dres[t].kind = "decoding"
                    THEN IF ~dres[t].ok THEN "failed"
                         ELSE IF IsSome(dres[t].ctx) THEN "hardware" ELSE "software"
                    ELSE "none"]
    /\ dres' = [dres EXCEPT ![t] = NoResult]
    /\ dcall' = [dcall EXCEPT ![t] = NoCall]
    /\ dpc' = [dpc EXCEPT ![t] = IF dres[t].kind = "decoding" /\ dres[t].ok THEN "open_as"
                                 ELSE "idle"]
    /\ UNCHANGED <<devices, devLock, nativeMade>>

\* ffmpeg.rs line 138: ctx.decoder().open_as(codec)
DevOpenAs(t) ==
    /\ dpc[t] = "open_as"
    /\ hwOpen' = [hwOpen EXCEPT ![t] = "none"]
    /\ dpc' = [dpc EXCEPT ![t] = "idle"]
    /\ UNCHANGED <<devices, devLock, nativeMade, dcall, dres>>

DevNext ==
    \/ \E t \in Threads, index \in Indexes, codec \in Codecs, device \in DeviceNames :
          InitDeviceForDecoding(t, index, codec, device)
    \/ \E t \in Threads, ty \in DeviceTypes : InitializeCtx(t, ty)
    \/ \E t \in Threads : DevLock(t)
    \/ \E t \in Threads : DevCreateOk(t)
    \/ \E t \in Threads : DevCreateFail(t)
    \/ \E t \in Threads : DevGet(t)
    \/ \E t \in Threads : DevReturn(t)
    \/ \E t \in Threads : DevOpenAs(t)

\* ---------------------------------------------------------------- decoders
\* frame rates of the clips of the model: 24, 2.5 and 0.5 frames per second
Rates == {<<24, 1>>, <<5, 2>>, <<1, 2>>}

\* frames of the clips of the model
MaxFrames == 4

\* the timestamps (microseconds) given to seek
SeekTimes == {-200000, 0, 20833, 20834, 200000, 400000, 2000000}

Min(a, b) == IF a <= b THEN a ELSE b

Max(a, b) == IF a >= b THEN a ELSE b

\* f64::round of a / b for b > 0: the nearest integer, halves away from zero
RoundDiv(a, b) ==
    IF a >= 0 THEN (2 * a + b) \div (2 * b) ELSE 0 - ((2 * (0 - a) + b) \div (2 * b))

\* (timestamp_us as f64 * self.frame_rate / 1_000_000.0).round() as i64
SeekTarget(timestamp_us, rate) == RoundDiv(timestamp_us * rate[1], rate[2] * 1000000)

\* a clamp whose upper end is frame_count
SeekFrameToCount(timestamp_us, rate, count) ==
    Max(Min(SeekTarget(timestamp_us, rate), count), 0)

\* braw.rs 115-117, r3d.rs 85-87: .min(self.frame_count as i64 - 1).max(0) as u64
SeekFrame(timestamp_us, rate, count) ==
    Max(Min(SeekTarget(timestamp_us, rate), count - 1), 0)

\* self.frame_rate as i64: the rate truncated
RateAsInt(rate) == rate[1] \div rate[2]

\* braw.rs 144, r3d.rs 141: self.current_frame as i64 * 1_000_000 / self.frame_rate as i64
FrameTimestamp(n, rate) == (n * 1000000) \div RateAsInt(rate)

IndexBackends == {"braw", "r3d"}

\* BrawDecoder::new, R3dDecoder::new: the clip's rate and frame count, the cursor at 0
IdxInit ==
    /\ backend \in IndexBackends
    /\ FfNew(NoInput)
    /\ frame_rate \in Rates
    /\ frame_count \in 0..MaxFrames
    /\ current_frame = 0
    /\ ret = [kind |-> "none"]
    /\ sought = None
    /\ exhausted = FALSE
    /\ lastOut = NoOut
    /\ owed = NoneOwed
    /\ submits = 0

\* BrawDecoder::seek, R3dDecoder::seek
IdxSeek(t) ==
    /\ backend \in IndexBackends
    /\ current_frame' = SeekFrame(t, frame_rate, frame_count)
    /\ ret' = [kind |-> "seek_ok", t |-> t]
    /\ sought' = Some(t)
    /\ exhausted' = FALSE
    /\ lastOut' = NoOut
    /\ UNCHANGED <<backend, ffVars, frame_rate, frame_count, owed, submits>>

\* BrawDecoder::next_frame, R3dDecoder::next_frame at the end of the clip
IdxNextFrameEnd ==
    /\ backend \in IndexBackends
    /\ current_frame >= frame_count
    /\ ret' = [kind |-> "eos"]
    /\ sought' = None
    /\ exhausted' = TRUE
    /\ UNCHANGED <<backend, ffVars, idxVars, lastOut, owed, submits>>

\* BrawDecoder::next_frame, R3dDecoder::next_frame: reading or decoding the frame fails
\* and `?` returns the error
IdxNextFrameErr ==
    /\ backend \in IndexBackends
    /\ current_frame < frame_count
    /\ ret' = [kind |-> "err", error |-> "engine"]
    /\ sought' = None
    /\ lastOut' = NoOut
    /\ UNCHANGED <<backend, ffVars, idxVars, exhausted, owed, submits>>

\* BrawDecoder::next_frame, lines 146-149: the frame is decoded and the cursor advanced,
\* then reading the width, the height or the format of the processed image fails and
\* `?` returns the error
BrawNextFrameErrLate ==
    /\ backend = "braw"
    /\ current_frame < frame_count
    /\ RateAsInt(frame_rate) # 0
    /\ current_frame' = current_frame + 1
    /\ ret' = [kind |-> "err", error |-> "image"]
    /\ sought' = None
    /\ lastOut' = NoOut
    /\ UNCHANGED <<backend, ffVars, frame_rate, frame_count, exhausted, owed, submits>>

\* BrawDecoder::next_frame, R3dDecoder::next_frame: the frame is decoded; the timestamp
\* divides by the truncated rate, which panics when the rate is below 1
IdxNextFrameOk ==
    /\ backend \in IndexBackends
    /\ current_frame < frame_count
    /\ IF RateAsInt(frame_rate) = 0
       THEN /\ ret' = [kind |-> "panic", error |-> "attempt to divide by zero"]
            /\ UNCHANGED idxVars
       ELSE /\ ret' = [kind |-> "frame", stream |-> 0, n |-> current_frame,
                       ts |-> FrameTimestamp(current_frame, frame_rate)]
            /\ current_frame' = current_frame + 1
            /\ UNCHANGED <<frame_rate, frame_count>>
    /\ sought' = None
    /\ lastOut' = AfterReturn(ret')
    /\ UNCHANGED <<backend, ffVars, exhausted, owed, submits>>

IdxNext ==
    \/ \E t \in SeekTimes : IdxSeek(t)
    \/ IdxNextFrameEnd
    \/ IdxNextFrameErr
    \/ BrawNextFrameErrLate
    \/ IdxNextFrameOk

\* ---------------------------------------------------------------- FfmpegDecoder
\* failures of the source and of the engines in one run of the model
MaxFaults == 1

\* the stream time base of the model's containers: one tick is 1/25 s
UsPerTick == 1000000 \div 25

\* a packet of stream s with presentation time pts (in ticks of the stream time base)
Packet(s, pts) == [stream |-> s, pts |-> pts]

\* the containers of the model. `delay` is the number of packets an engine holds back
\* before it delivers its first frame (frame reordering, frame threading). `broken` is
\* the position at which av_read_frame fails with an error other than Eof every time it
\* is called (a source that stays unreadable there), 0 when there is none.
Inputs ==
    { NoInput,
      [media |-> <<"video">>, delay |-> <<1>>,
       packets |-> <<Packet(0, 0), Packet(0, 1), Packet(0, 2)>>, broken |-> 0],
      [media |-> <<"audio", "video">>, delay |-> <<0, 1>>,
       packets |-> <<Packet(1, 0), Packet(0, 0), Packet(1, 1)>>, broken |-> 0],
      [media |-> <<"other", "video">>, delay |-> <<0, 0>>,
       packets |-> <<Packet(0, 0), Packet(1, 0)>>, broken |-> 0],
      [media |-> <<"video">>, delay |-> <<0>>,
       packets |-> <<Packet(0, 0), Packet(0, 1)>>, broken |-> 2] }

Streams == StreamsOf(input)

Medium(x) == input.media[x + 1]

\* current_packet.rescale_ts(stream.time_base(), (1, 1000000))
RescaleTs(pts) == pts * UsPerTick

\* self.current_packet.stream(): the stream index of the held packet, 0 for the empty one
PacketStream == IF IsSome(current_packet) THEN input.packets[Unwrap(current_packet)].stream
                ELSE 0

\* context.seek(position, ..position): the source goes to the last packet at or before
\* the position, to the first packet when there is none
Landing(t) ==
    LET before == {k \in DOMAIN input.packets : RescaleTs(input.packets[k].pts) <= t}
        ts == IF before = {} THEN RescaleTs(input.packets[1].pts)
              ELSE RescaleTs(input.packets[CHOOSE k \in before :
                       \A j \in before : input.packets[j].pts <= input.packets[k].pts].pts)
    IN  CHOOSE k \in DOMAIN input.packets :
            /\ RescaleTs(input.packets[k].pts) = ts
            /\ \A j \in DOMAIN input.packets :
                  RescaleTs(input.packets[j].pts) = ts => k <= j

\* an engine that keeps every packet it holds when it fails
EngineAfterErrorKeeps(q, eof) == q

\* the packets an engine holds after receive_frame returned an error other than EAGAIN
\* and Eof: the packet it failed on gives no frame, and a failure while draining ends
\* the drain
EngineAfterError(q, eof) == IF eof \/ q = <<>> THEN <<>> ELSE Tail(q)

\* the engine of stream x has a frame to deliver
HasFrame(x) ==
    IF engEof[x] THEN engQ[x] # <<>> ELSE Len(engQ[x]) > input.delay[x + 1]

\* a returning step of a call on the decoder
Return(r) ==
    /\ ret' = r
    /\ sought' = None
    /\ exhausted' = IF r.kind = "eos" THEN TRUE ELSE exhausted
    /\ lastOut' = AfterReturn(r)

FfFrame(x, pts) == [kind |-> "frame", stream |-> x, n |-> pts, ts |-> RescaleTs(pts)]

\* streams(): the caller sets the decode flag of a stream before the first call
FfSetDecode(x, b) ==
    /\ backend = "ffmpeg"
    /\ fpc = "idle"
    /\ ret.kind = "none"
    /\ x \in Streams
    /\ decode[x] # b
    /\ decode' = [decode EXCEPT ![x] = b]
    /\ UNCHANGED <<backend, idxVars, input, srcPos, current_packet, packets_ended, decoder,
                   engQ, engEof, fpc, fetch_new_packet, faults, ret, sought, exhausted, lastOut, owed, submits>>

\* FfmpegDecoder::seek, lines 37-38 and 42: the native seek succeeded
FfSeekOk(t) ==
    /\ backend = "ffmpeg"
    /\ fpc = "idle"
    /\ input.packets # <<>>
    /\ srcPos' = Landing(t)
    /\ ret' = [kind |-> "seek_ok", t |-> t]
    /\ sought' = Some(t)
    /\ exhausted' = FALSE
    /\ lastOut' = NoOut
    /\ UNCHANGED <<backend, idxVars, input, current_packet, packets_ended, decode, decoder,
                   engQ, engEof, fpc, fetch_new_packet, faults, owed, submits>>

\* FfmpegDecoder::seek, lines 38-41: the native seek failed
FfSeekErr(t) ==
    /\ backend = "ffmpeg"
    /\ fpc = "idle"
    /\ ret' = [kind |-> "seek_err", t |-> t]
    /\ sought' = None
    /\ UNCHANGED <<backend, idxVars, ffVars, exhausted, lastOut, owed, submits>>

\* the units owed after packet p was read: a frame is owed for it when its stream is
\* decoded (lines 121, 126 and 140: the decode flag is set and the stream is video or audio)
Read(o, p) ==
    IF p.stream \in Streams /\ decode[p.stream] /\ Medium(p.stream) \in {"video", "audio"}
          /\ IsSome(o[p.stream])
    THEN [o EXCEPT ![p.stream] = Some(Append(Unwrap(@), p.pts))]
    ELSE o

\* the units owed after a frame of stream x was delivered
Delivered(o, x) ==
    IF IsSome(o[x]) /\ Unwrap(o[x]) # <<>> THEN [o EXCEPT ![x] = Some(Tail(Unwrap(@)))]
    ELSE [o EXCEPT ![x] = None]

\* next_frame, lines 96-97
FfCall ==
    /\ backend = "ffmpeg"
    /\ fpc = "idle"
    /\ fetch_new_packet' = (current_packet = None)
    /\ fpc' = IF current_packet = None /\ ~packets_ended THEN "read" ELSE "route"
    /\ UNCHANGED <<backend, idxVars, input, srcPos, current_packet, packets_ended, decode,
                   decoder, engQ, engEof, faults, ret, sought, exhausted, lastOut, owed, submits>>

\* lines 99-100: read returned a packet
FfReadOk ==
    /\ fpc = "read"
    /\ srcPos <= Len(input.packets)
    /\ srcPos # input.broken
    /\ current_packet' = Some(srcPos)
    /\ srcPos' = srcPos + 1
    /\ fpc' = "route"
    /\ owed' = Read(owed, input.packets[srcPos])
    /\ submits' = 0
    /\ UNCHANGED <<backend, idxVars, input, packets_ended, decode, decoder, engQ, engEof,
                   fetch_new_packet, faults, ret, sought, exhausted, lastOut>>

\* lines 101-111: read returned Eof; every open decoder is sent send_eof
FfReadEof ==
    /\ fpc = "read"
    /\ srcPos > Len(input.packets)
    /\ packets_ended' = TRUE
    /\ engEof' = [x \in Streams |-> engEof[x] \/ decoder[x]]
    /\ fpc' = "route"
    /\ UNCHANGED <<backend, idxVars, input, srcPos, current_packet, decode, decoder, engQ,
                   fetch_new_packet, faults, ret, sought, exhausted, lastOut, owed, submits>>

\* lines 101-108 with a send_eof that fails on the open decoder of stream x: the flag is
\* set, the decoders before x were signalled, `?` returns the error and the decoders
\* after x are left as they were. Whether the engine of x itself counts as flushed is
\* the native library's choice (`flushed`).
FfReadEofErr(x, flushed) ==
    /\ fpc = "read"
    /\ srcPos > Len(input.packets)
    /\ x \in Streams
    /\ decoder[x]
    /\ faults < MaxFaults
    /\ faults' = faults + 1
    /\ packets_ended' = TRUE
    /\ engEof' = [y \in Streams |-> engEof[y] \/ (decoder[y] /\ y < x) \/ (y = x /\ flushed)]
    /\ Return([kind |-> "err", error |-> "send_eof"])
    /\ fpc' = "idle"
    /\ owed' = [owed EXCEPT ![x] = None]
    /\ UNCHANGED submits
    /\ UNCHANGED <<backend, idxVars, input, srcPos, current_packet, decode, decoder, engQ,
                   fetch_new_packet>>

\* line 112: read returned another error; the loop reads again, without a limit. The
\* failure is one of the source's passing failures, or the source is unreadable at this
\* position and fails the same way again.
FfReadErr ==
    /\ fpc = "read"
    /\ \/ (faults < MaxFaults /\ faults' = faults + 1)
       \/ (srcPos = input.broken /\ faults' = faults)
    /\ UNCHANGED <<backend, idxVars, input, srcPos, current_packet, packets_ended, decode,
                   decoder, engQ, engEof, fpc, fetch_new_packet, ret, sought, exhausted, lastOut, owed, submits>>

\* a test that opens a decoder for every stream that has none
ShouldOpenAny(x) == ~decoder[x]

\* line 121: state.info.decode && state.decoder.is_none()
ShouldOpen(x) == decode[x] /\ ~decoder[x]

\* lines 117-143: the stream of the held packet indexes stream_state (a panic when there
\* is no such entry); its decoder is opened when decode is set and it has none
FfRoute ==
    /\ fpc = "route"
    /\ IF PacketStream \notin Streams
       THEN /\ Return([kind |-> "panic", error |-> "index out of bounds"])
            /\ fpc' = "idle"
            /\ UNCHANGED decoder
       ELSE /\ decoder' = [decoder EXCEPT ![PacketStream] =
                             IF ShouldOpen(PacketStream)
                             THEN Medium(PacketStream) \in {"video", "audio"}
                             ELSE @]
            /\ fpc' = "decode"
            /\ UNCHANGED <<ret, sought, exhausted, lastOut>>
    /\ UNCHANGED <<backend, idxVars, input, srcPos, current_packet, packets_ended, decode,
                   engQ, engEof, fetch_new_packet, faults, owed, submits>>

\* lines 181-185: the stream has no decoder
FfNoDecoder ==
    /\ fpc = "decode"
    /\ ~decoder[PacketStream]
    /\ current_packet' = None
    /\ Return(IF packets_ended THEN [kind |-> "eos"] ELSE [kind |-> "other"])
    /\ fpc' = "idle"
    /\ UNCHANGED <<backend, idxVars, input, srcPos, packets_ended, decode, decoder, engQ,
                   engEof, fetch_new_packet, faults, owed, submits>>

\* a call that sends whatever packet is held
SendsAnyHeld == IsSome(current_packet)

\* a call that sends the held packet to the engine whether or not it fetched it
SendsHeldPacket == IsSome(current_packet) /\ ~packets_ended

\* line 151: the call sends the packet it fetched
SendsPacket == fetch_new_packet /\ ~packets_ended

\* lines 150-158: the packet fetched by this call is sent to the engine
FfSend ==
    /\ fpc = "decode"
    /\ decoder[PacketStream]
    /\ engQ' = IF SendsPacket
               THEN [engQ EXCEPT ![PacketStream] =
                        Append(@, input.packets[Unwrap(current_packet)].pts)]
               ELSE engQ
    /\ fpc' = "receive"
    /\ UNCHANGED <<backend, idxVars, input, srcPos, current_packet, packets_ended, decode,
                   decoder, engEof, fetch_new_packet, faults, ret, sought, exhausted, lastOut, owed>>
    /\ submits' = IF SendsPacket THEN submits + 1 ELSE submits

\* lines 154-157: send_packet failed, the error is returned
FfSendErr ==
    /\ fpc = "decode"
    /\ decoder[PacketStream]
    /\ SendsPacket
    /\ faults < MaxFaults
    /\ faults' = faults + 1
    /\ Return([kind |-> "err", error |-> "send_packet"])
    /\ fpc' = "idle"
    /\ owed' = [owed EXCEPT ![PacketStream] = None]
    /\ submits' = submits + 1
    /\ UNCHANGED <<backend, idxVars, input, srcPos, current_packet, packets_ended, decode,
                   decoder, engQ, engEof, fetch_new_packet>>

\* lines 159-172: receive_frame delivered a frame
FfReceiveOk ==
    /\ fpc = "receive"
    /\ HasFrame(PacketStream)
    /\ engQ' = [engQ EXCEPT ![PacketStream] = Tail(@)]
    /\ Return(FfFrame(PacketStream, Head(engQ[PacketStream])))
    /\ fpc' = "idle"
    /\ owed' = Delivered(owed, PacketStream)
    /\ UNCHANGED submits
    /\ UNCHANGED <<backend, idxVars, input, srcPos, current_packet, packets_ended, decode,
                   decoder, engEof, fetch_new_packet, faults>>

\* lines 160-164, after receive_frame returned Err: the packet is emptied; Ok(None) when
\* the packets ended, else next_frame is called again
FfReceiveFailed(failed) ==
    /\ current_packet' = None
    /\ owed' = IF failed THEN [owed EXCEPT ![PacketStream] = None] ELSE owed
    /\ submits' = 0
    /\ IF packets_ended
       THEN /\ Return([kind |-> "eos"])
            /\ fpc' = "idle"
            /\ UNCHANGED fetch_new_packet
       ELSE /\ fetch_new_packet' = TRUE
            /\ fpc' = "read"
            /\ lastOut' = IF failed THEN [lastOut EXCEPT ![PacketStream] = None]
                           ELSE lastOut
            /\ UNCHANGED <<ret, sought, exhausted>>

\* receive_frame returned EAGAIN (more input needed) or Eof (drained)
FfReceiveAgain ==
    /\ fpc = "receive"
    /\ ~HasFrame(PacketStream)
    /\ FfReceiveFailed(FALSE)
    /\ UNCHANGED <<backend, idxVars, input, srcPos, packets_ended, decode, decoder, engQ,
                   engEof, faults>>

\* receive_frame returned another error: the engine failed on the packet it was
\* decoding and gives no frame for it (when draining, the drain ends)
FfReceiveErr ==
    /\ fpc = "receive"
    /\ faults < MaxFaults
    /\ faults' = faults + 1
    /\ engQ' = [engQ EXCEPT ![PacketStream] = EngineAfterError(@, engEof[PacketStream])]
    /\ FfReceiveFailed(TRUE)
    /\ UNCHANGED <<backend, idxVars, input, srcPos, packets_ended, decode, decoder, engEof>>

FfNext ==
    \/ \E x \in 0..1, b \in BOOLEAN : FfSetDecode(x, b)
    \/ \E t \in SeekTimes : FfSeekOk(t)
    \/ \E t \in SeekTimes : FfSeekErr(t)
    \/ FfCall
    \/ FfReadOk
    \/ FfReadEof
    \/ \E x \in 0..1, flushed \in BOOLEAN : FfReadEofErr(x, flushed)
    \/ FfReadErr
    \/ FfRoute
    \/ FfNoDecoder
    \/ FfSend
    \/ FfSendErr
    \/ FfReceiveOk
    \/ FfReceiveAgain
    \/ FfReceiveErr

\* FfmpegDecoder::new
FfInit ==
    /\ backend = "ffmpeg"
    /\ \E inp \in Inputs : FfNew(inp)
    /\ frame_rate = <<1, 1>>
    /\ frame_count = 0
    /\ current_frame = 0
    /\ ret = [kind |-> "none"]
    /\ sought = None
    /\ exhausted = FALSE
    /\ lastOut = NoOut
    /\ owed = NoneOwed
    /\ submits = 0

\* ---------------------------------------------------------------- NullDecoder
NullInit ==
    /\ backend = "null"
    /\ FfNew(NoInput)
    /\ frame_rate = <<1, 1>>
    /\ frame_count = 0
    /\ current_frame = 0
    /\ ret = [kind |-> "none"]
    /\ sought = None
    /\ exhausted = FALSE
    /\ lastOut = NoOut
    /\ owed = NoneOwed
    /\ submits = 0

\* NullDecoder::seek: Ok(false)
NullSeek(t) ==
    /\ backend = "null"
    /\ ret' = [kind |-> "seek_false", t |-> t]
    /\ UNCHANGED <<backend, idxVars, ffVars, sought, exhausted, lastOut, owed, submits>>

\* NullDecoder::next_frame: Ok(None)
NullNextFrame ==
    /\ backend = "null"
    /\ Return([kind |-> "eos"])
    /\ UNCHANGED <<backend, idxVars, ffVars, owed, submits>>

\* ---------------------------------------------------------------- get_video_info
\* get_video_info was not called
NoInfo == [kind |-> "none"]

\* a search that looks at the streams being decoded only
BestDecodedVideo(ctx) ==
    {x \in StreamsOf(ctx) : ctx.media[x + 1] = "video" /\ decode[x]}

\* ffmpeg.rs line 48, self.context.streams().best(media::Type::Video): the video
\* streams of the container (the containers of the model have one at most)
BestVideo(ctx) == {x \in StreamsOf(ctx) : ctx.media[x + 1] = "video"}

\* the result of get_video_info; `ok` tells whether the native calls it makes with `?`
\* succeed (ffmpeg.rs line 49, braw.rs lines 126-127; r3d.rs has none)
VideoInfo(ok) ==
    CASE backend = "ffmpeg" ->
            IF BestVideo(input) = {} THEN [kind |-> "err", error |-> "StreamNotFound"]
            ELSE IF ~ok THEN [kind |-> "err", error |-> "native"]
            ELSE LET x == CHOOSE v \in BestVideo(input) : TRUE
                 IN  [kind |-> "ok", stream |-> x,
                      frame_count |-> Cardinality({k \in DOMAIN input.packets :
                                                     input.packets[k].stream = x}),
                      fps |-> <<25, 1>>]
      [] backend \in IndexBackends ->
            IF backend = "braw" /\ ~ok THEN [kind |-> "err", error |-> "native"]
            ELSE [kind |-> "ok", stream |-> 0, frame_count |-> frame_count,
                  fps |-> frame_rate]
      [] OTHER -> [kind |-> "err", error |-> "DecoderNotFound"]

\* Decoder::get_video_info(&self) on the opened backend, between two other calls
GetVideoInfo(ok) ==
    /\ backend # "none"
    /\ fpc = "idle"
    /\ info' = VideoInfo(ok)
    /\ UNCHANGED decVars

\* streams() of the opened backend: the indexes of its Stream entries
StreamList ==
    IF backend = "ffmpeg" THEN [i \in 1..Len(input.media) |-> i - 1]
    ELSE IF backend \in IndexBackends THEN <<0>>
    ELSE <<>>

\* a call of next_frame returns in this step
NextFrameReturns ==
    \/ fpc # "idle" /\ fpc' = "idle"
    \/ IdxNextFrameEnd
    \/ IdxNextFrameErr
    \/ BrawNextFrameErrLate
    \/ IdxNextFrameOk
    \/ NullNextFrame

DecInit == IdxInit \/ FfInit \/ NullInit

DecNext ==
    \/ IdxNext
    \/ FfNext
    \/ \E t \in SeekTimes : NullSeek(t)
    \/ NullNextFrame

\* ---------------------------------------------------------------- Decoder::new
\* Strings are sequences of characters. The names given to Decoder::new in the model:
\* "", "a.braw", "A.BRAW", "b.R3d", "c.nev", "d.mp4", "braw", "a.braw.mp4"
Names ==
    { <<>>,
      <<"a", ".", "b", "r", "a", "w">>,
      <<"A", ".", "B", "R", "A", "W">>,
      <<"b", ".", "R", "3", "d">>,
      <<"c", ".", "n", "e", "v">>,
      <<"d", ".", "m", "p", "4">>,
      <<"b", "r", "a", "w">>,
      <<"a", ".", "b", "r", "a", "w", ".", "m", "p", "4">> }

\* the values given to the decode_resolution options in the model
Tokens ==
    { <<"f", "u", "l", "l">>,
      <<"1">>,
      <<"h", "a", "l", "f">>,
      <<"1", "/", "2">>,
      <<"q", "u", "a", "r", "t", "e", "r">>,
      <<"1", "/", "4">>,
      <<"e", "i", "g", "h", "t", "h">>,
      <<"1", "/", "8">>,
      <<"s", "i", "x", "t", "e", "e", "n", "t", "h">>,
      <<"1", "/", "1", "6">>,
      <<"H", "A", "L", "F">>,
      <<" ", "Q", "u", "a", "r", "t", "e", "r", " ">>,
      <<"S", "i", "x", "t", "e", "e", "n", "t", "h">>,
      <<"h", "a", "l", "f", "_", "g", "o", "o", "d">>,
      <<"t", "h", "i", "r", "d">>,
      <<>> }

\* the byte of a character: the order of String is the order of its bytes
Byte(c) ==
    CASE c = " " -> 32
      [] c = "." -> 46
      [] c = "/" -> 47
      [] c = "1" -> 49
      [] c = "2" -> 50
      [] c = "3" -> 51
      [] c = "4" -> 52
      [] c = "6" -> 54
      [] c = "8" -> 56
      [] c = "A" -> 65
      [] c = "B" -> 66
      [] c = "F" -> 70
      [] c = "H" -> 72
      [] c = "L" -> 76
      [] c = "Q" -> 81
      [] c = "R" -> 82
      [] c = "S" -> 83
      [] c = "W" -> 87
      [] c = "_" -> 95
      [] c = "a" -> 97
      [] c = "b" -> 98
      [] c = "c" -> 99
      [] c = "d" -> 100
      [] c = "e" -> 101
      [] c = "f" -> 102
      [] c = "g" -> 103
      [] c = "h" -> 104
      [] c = "i" -> 105
      [] c = "l" -> 108
      [] c = "m" -> 109
      [] c = "n" -> 110
      [] c = "o" -> 111
      [] c = "p" -> 112
      [] c = "q" -> 113
      [] c = "r" -> 114
      [] c = "s" -> 115
      [] c = "t" -> 116
      [] c = "u" -> 117
      [] c = "v" -> 118
      [] c = "w" -> 119
      [] c = "x" -> 120

UpperCase == 
    <<"A", "B", "C", "D", "E", "F", "G", "H", "I", "J", "K", "L", "M">>
    \o <<"N", "O", "P", "Q", "R", "S", "T", "U", "V", "W", "X", "Y", "Z">>

LowerCase == 
    <<"a", "b", "c", "d", "e", "f", "g", "h", "i", "j", "k", "l", "m">>
    \o <<"n", "o", "p", "q", "r", "s", "t", "u", "v", "w", "x", "y", "z">>

\* a string that keeps its case
KeepCase(s) == s

\* str::to_ascii_lowercase
ToAsciiLowercase(s) ==
    [i \in 1..Len(s) |->
        IF \E k \in 1..26 : UpperCase[k] = s[i]
        THEN LowerCase[CHOOSE k \in 1..26 : UpperCase[k] = s[i]]
        ELSE s[i]]

\* str::ends_with
EndsWith(s, suffix) ==
    /\ Len(s) >= Len(suffix)
    /\ SubSeq(s, Len(s) - Len(suffix) + 1, Len(s)) = suffix

\* str::trim, for the white space of the model's strings
RECURSIVE Trim(_)
Trim(s) ==
    IF s = <<>> THEN s
    ELSE IF Head(s) = " " THEN Trim(Tail(s))
    ELSE IF s[Len(s)] = " " THEN Trim(SubSeq(s, 1, Len(s) - 1))
    ELSE s

\* Ord for String: a < b
RECURSIVE StrLess(_, _)
StrLess(a, b) ==
    IF b = <<>> THEN FALSE
    ELSE IF a = <<>> THEN TRUE
    ELSE IF Head(a) = Head(b) THEN StrLess(Tail(a), Tail(b))
    ELSE Byte(Head(a)) < Byte(Head(b))

\* io.rs, IoType: the variants Decoder::new tells apart. `names` are the keys of a
\* FileList (a BTreeMap, iterated in the order of its keys)
IoType(kind, name, names) == [kind |-> kind, name |-> name, names |-> names]

\* m.keys().next().unwrap() of a BTreeMap that is not empty
FirstKey(names) == CHOOSE n \in names : \A m \in names : m = n \/ StrLess(n, m)

\* the inputs given to Decoder::new in the model
NewInputs ==
    {IoType("FileOrUrl", n, {}) : n \in Names}
    \cup {IoType("Callback", n, {}) : n \in {<<>>, <<"b", ".", "R", "3", "d">>}}
    \cup {IoType("Bytes", <<>>, {}), IoType("ReadSeekStream", <<>>, {})}
    \cup {IoType("FileList", <<>>, S) :
             S \in { {}, {<<"d", ".", "m", "p", "4">>}, {<<"a", ".", "b", "r", "a", "w">>, <<"A", ".", "B", "R", "A", "W">>}, {<<"c", ".", "n", "e", "v">>, <<"d", ".", "m", "p", "4">>, <<"a", ".", "b", "r", "a", "w", ".", "m", "p", "4">>} }}

\* options.custom_options of the model: a "filename" entry or none, with
\* decode_resolution entries or none
NewOptions ==
    LET names == {EmptyMap} \cup {("filename" :> n) : n \in {<<>>, <<"a", ".", "b", "r", "a", "w">>, <<"b", ".", "R", "3", "d">>, <<"d", ".", "m", "p", "4">>}}
        scales == {EmptyMap}
                  \cup {("decode_resolution" :> v) : v \in Tokens}
                  \cup {("braw.decode_resolution" :> <<"h", "a", "l", "f">>),
                        ("r3d.decode_resolution" :> <<"1", "/", "1", "6">>),
                        ("braw.decode_resolution" :> <<"1", "/", "4">>) @@ ("decode_resolution" :> <<"f", "u", "l", "l">>),
                        ("r3d.decode_resolution" :> <<"t", "h", "i", "r", "d">>) @@ ("decode_resolution" :> <<"f", "u", "l", "l">>)}
    IN  {n @@ s : n \in names, s \in scales}

\* the sets of cargo features a build can have
Features == SUBSET {"braw", "r3d", "ffmpeg"}

\* HashMap::get
Get(m, k) == IF k \in DOMAIN m THEN Some(m[k]) ELSE None

\* util.rs, select_custom_option: the value of the first key of `keys` the map holds
SelectCustomOption(options, keys) ==
    LET found == {i \in 1..Len(keys) : keys[i] \in DOMAIN options}
    IN  IF found = {} THEN None
        ELSE Some(options[keys[CHOOSE i \in found : \A j \in found : i <= j]])

\* the name of the input itself, lines 40-43 and 48-51
InputName(inp) ==
    IF inp.kind \in {"FileOrUrl", "Callback"} THEN Some(inp.name)
    ELSE IF inp.kind = "FileList" /\ inp.names # {} THEN Some(FirstKey(inp.names))
    ELSE None

\* a hint that takes the name of the input before the "filename" option
FilenameInputFirst(options, inp) ==
    IF IsSome(InputName(inp)) THEN InputName(inp) ELSE Get(options, "filename")

\* Decoder::new, lines 37-44: the "filename" option, or else the name of the input
Filename(options, inp) ==
    IF IsSome(Get(options, "filename")) THEN Get(options, "filename") ELSE InputName(inp)

\* Decoder::new, lines 47-52: the name of the input, or else the "filename" option
Path(options, inp) ==
    IF IsSome(InputName(inp)) THEN InputName(inp) ELSE Get(options, "filename")

\* braw.rs, parse_resolution_scale
ParseResolutionScale(value) ==
    LET v == Trim(ToAsciiLowercase(value))
    IN  IF v \in {<<"f", "u", "l", "l">>, <<"1">>} THEN Some("Full")
        ELSE IF v \in {<<"h", "a", "l", "f">>, <<"1", "/", "2">>} THEN Some("Half")
        ELSE IF v \in {<<"q", "u", "a", "r", "t", "e", "r">>, <<"1", "/", "4">>} THEN Some("Quarter")
        ELSE IF v \in {<<"e", "i", "g", "h", "t", "h">>, <<"1", "/", "8">>} THEN Some("Eighth")
        ELSE None

\* a parse_decode_mode that knows the scales of BRAW only
ParseDecodeModeAsBraw(value) == ParseResolutionScale(value)

\* r3d.rs, parse_decode_mode
ParseDecodeMode(value) ==
    LET v == Trim(ToAsciiLowercase(value))
    IN  IF v \in {<<"f", "u", "l", "l">>, <<"1">>} THEN Some("FullResPremium")
        ELSE IF v = <<"h", "a", "l", "f">> THEN Some("HalfResPremium")
        ELSE IF v \in {<<"h", "a", "l", "f", "_", "g", "o", "o", "d">>, <<"1", "/", "2">>} THEN Some("HalfResGood")
        ELSE IF v \in {<<"q", "u", "a", "r", "t", "e", "r">>, <<"1", "/", "4">>} THEN Some("QuarterResGood")
        ELSE IF v \in {<<"e", "i", "g", "h", "t", "h">>, <<"1", "/", "8">>} THEN Some("EightResGood")
        ELSE IF v \in {<<"s", "i", "x", "t", "e", "e", "n", "t", "h">>, <<"1", "/", "1", "6">>} THEN Some("SixteenthResGood")
        ELSE None

\* r3d.rs, mode_divisor, and the divisor of a BlackmagicRawResolutionScale
ModeDivisor(mode) ==
    CASE mode \in {"FullResPremium", "Full"} -> 1
      [] mode \in {"HalfResPremium", "HalfResGood", "Half"} -> 2
      [] mode \in {"QuarterResGood", "Quarter"} -> 4
      [] mode \in {"EightResGood", "Eighth"} -> 8
      [] mode = "SixteenthResGood" -> 16

\* Decoder::new has not returned
NoRet == [kind |-> "none", inner |-> "none", error |-> "", name |-> None, scale |-> None,
          warned |-> FALSE]

\* no call of Decoder::new
NewIdle ==
    /\ features = {"braw", "r3d", "ffmpeg"}
    /\ new_input = IoType("Bytes", <<>>, {})
    /\ new_options = EmptyMap
    /\ npc = "idle"
    /\ filename = None
    /\ new_ret = NoRet

\* a call of Decoder::new(input, options) in a build with some features
NewInit ==
    /\ features \in Features
    /\ new_input \in NewInputs
    /\ new_options \in NewOptions
    /\ npc = "start"
    /\ filename = None
    /\ new_ret = NoRet

\* line 63: filename.as_ref().map(|s| s.to_ascii_lowercase()).unwrap_or_default()
FilenameLower == IF IsSome(filename) THEN ToAsciiLowercase(Unwrap(filename)) ELSE <<>>

\* path.or(filename), the name the backend is opened with
OpenName ==
    IF IsSome(Path(new_options, new_input)) THEN Path(new_options, new_input) ELSE filename

\* the backend's own `new`: it fails (`?` returns its error) or it returns the decoder,
\* with the decode resolution it took from the options (braw.rs 239-246, r3d.rs 402-407)
Open(inner, key, scale, ok) ==
    LET value == SelectCustomOption(new_options, <<key, "decode_resolution">>)
        parsed == IF ~IsSome(value) THEN None
                  ELSE IF inner = "braw" THEN ParseResolutionScale(Unwrap(value))
                  ELSE IF inner = "r3d" THEN ParseDecodeMode(Unwrap(value))
                  ELSE None
    IN  new_ret' =
           IF ok THEN [kind |-> "ok", inner |-> inner, error |-> "", name |-> OpenName,
                       scale |-> IF IsSome(parsed) THEN parsed ELSE scale,
                       warned |-> inner \in {"braw", "r3d"} /\ IsSome(value) /\ ~IsSome(parsed)]
           ELSE [kind |-> "err", inner |-> inner, error |-> "open", name |-> OpenName,
                 scale |-> None, warned |-> FALSE]

\* lines 34-63
NewFilename ==
    /\ npc = "start"
    /\ filename' = Filename(new_options, new_input)
    /\ npc' = "match"
    /\ UNCHANGED <<features, new_input, new_options, new_ret>>

MatchesBraw == "braw" \in features /\ EndsWith(FilenameLower, <<".", "b", "r", "a", "w">>)

MatchesR3d ==
    "r3d" \in features /\ (EndsWith(FilenameLower, <<".", "r", "3", "d">>) \/ EndsWith(FilenameLower, <<".", "n", "e", "v">>))

\* lines 67-72
NewBraw(ok) ==
    /\ npc = "match"
    /\ MatchesBraw
    /\ Open("braw", "braw.decode_resolution", None, ok)
    /\ npc' = "done"
    /\ UNCHANGED <<features, new_input, new_options, filename>>

\* lines 73-78
NewR3d(ok) ==
    /\ npc = "match"
    /\ ~MatchesBraw
    /\ MatchesR3d
    /\ Open("r3d", "r3d.decode_resolution", Some("FullResPremium"), ok)
    /\ npc' = "done"
    /\ UNCHANGED <<features, new_input, new_options, filename>>

\* lines 79-84
NewFfmpeg(ok) ==
    /\ npc = "match"
    /\ ~MatchesBraw
    /\ ~MatchesR3d
    /\ "ffmpeg" \in features
    /\ Open("ffmpeg", "", None, ok)
    /\ npc' = "done"
    /\ UNCHANGED <<features, new_input, new_options, filename>>

\* line 86
NewNotFound ==
    /\ npc = "match"
    /\ ~MatchesBraw
    /\ ~MatchesR3d
    /\ "ffmpeg" \notin features
    /\ new_ret' = [NoRet EXCEPT !.kind = "err", !.error = "DecoderNotFound"]
    /\ npc' = "done"
    /\ UNCHANGED <<features, new_input, new_options, filename>>

\* ---------------------------------------------------------------- video frames
\* the resource types of a BRAW processed image
ResourceTypes == {"BufferCPU", "BufferMetal", "BufferCUDA", "BufferOpenCL", "Other"}

\* the video frames of the model. BrawVideoFrame: where its processed image lives;
\* R3dVideoFrame: whether cpu_frame holds a buffer; FfmpegVideoFrame: whether
\* avframe.hw_frames_ctx is set and its pixel format; NullVideoFrame
VideoFrames ==
    {[kind |-> "braw", resource |-> r, held |-> FALSE] : r \in ResourceTypes}
    \cup {[kind |-> "r3d", resource |-> "BufferCPU", held |-> h] : h \in BOOLEAN}
    \cup {[kind |-> "ffmpeg", resource |-> r, held |-> FALSE] :
             r \in {"BufferCPU", "D3D11", "CUDA"}}
    \cup {[kind |-> "null", resource |-> "Other", held |-> FALSE]}

\* no accessor was called
NoAccess == [kind |-> "none"]

\* the resource of a BRAW image lives on a GPU
OnGpu(f) == f.resource \in {"BufferMetal", "BufferCUDA", "BufferOpenCL"}

\* get_cpu_buffers; `native` is how the native calls it makes end ("ok", "err": one
\* returns an error, "panic": the copy or the pool's factory fails under unwrap)
CpuBuffers(f, native) ==
    CASE f.kind = "braw" ->
            IF native = "err" THEN [kind |-> "err", error |-> "native"]
            ELSE IF OnGpu(f)
            THEN IF native = "panic" THEN [kind |-> "panic"]
                 ELSE [kind |-> "ok", planes |-> 1]
            ELSE IF f.resource = "BufferCPU" THEN [kind |-> "ok", planes |-> 1]
            ELSE [kind |-> "err", error |-> "NoSupportedFormats"]
      [] f.kind = "r3d" ->
            IF f.held THEN [kind |-> "ok", planes |-> 1]
            ELSE [kind |-> "err", error |-> "FrameEmpty"]
      [] f.kind = "ffmpeg" ->
            IF f.resource # "BufferCPU" /\ native # "ok"
            THEN [kind |-> "err", error |-> "FromHWTransferError"]
            ELSE [kind |-> "ok", planes |-> 2]
      [] OTHER -> [kind |-> "err", error |-> "FrameEmpty"]

\* get_gpu_texture(plane); `native` tells whether resource_type() and resource_gpu()
\* succeed
GpuTexture(f, plane, native) ==
    IF f.kind = "braw" /\ OnGpu(f) /\ native = "ok"
    THEN [kind |-> "some", texture |-> f.resource, plane |-> plane]
    ELSE [kind |-> "null", plane |-> plane]

\* no frame is looked at
FrameIdle ==
    /\ vframe = [kind |-> "none", resource |-> "Other", held |-> FALSE]
    /\ cpu_res = NoAccess
    /\ gpu_res = NoAccess
    /\ cpu_ok = FALSE
    /\ gpu_ok = FALSE

\* next_frame returned a video frame
FrameInit ==
    /\ vframe \in VideoFrames
    /\ cpu_res = NoAccess
    /\ gpu_res = NoAccess
    /\ cpu_ok = FALSE
    /\ gpu_ok = FALSE

\* get_cpu_buffers of this frame copies the image to a CPU buffer
MakesCopy(f) ==
    \/ (f.kind = "braw" /\ OnGpu(f))
    \/ (f.kind = "ffmpeg" /\ f.resource # "BufferCPU")

\* VideoFrame::get_cpu_buffers; a BRAW frame on a GPU and a hardware FFmpeg frame keep
\* the CPU copy they made (cpu_frame, swframe)
GetCpuBuffers(native) ==
    /\ vframe.kind # "none"
    /\ cpu_res.kind # "panic"
    /\ cpu_res' = CpuBuffers(vframe, native)
    /\ cpu_ok' = (cpu_ok \/ cpu_res'.kind = "ok")
    /\ vframe' = IF cpu_res'.kind = "ok" /\ MakesCopy(vframe)
                 THEN [vframe EXCEPT !.held = TRUE]
                 ELSE vframe
    /\ UNCHANGED <<gpu_res, gpu_ok>>

\* VideoFrame::get_gpu_texture
GetGpuTexture(plane, native) ==
    /\ vframe.kind # "none"
    /\ cpu_res.kind # "panic"
    /\ gpu_res' = GpuTexture(vframe, plane, native)
    /\ gpu_ok' = (gpu_ok \/ gpu_res'.kind = "some")
    /\ UNCHANGED <<vframe, cpu_res, cpu_ok>>

\* ---------------------------------------------------------------- specifications
\* nothing was called yet
Init == PoolInit /\ DevInit /\ DecIdle /\ NewIdle /\ info = NoInfo /\ FrameIdle

\* the steps of PoolNext, each leaving the device cache and the decoders alone
Next ==
    \/ \E t \in Threads, k \in Keys : (GetPop(t, k) /\ UNCHANGED <<devVars, decVars, newVars, info, frameVars>>)
    \/ \E t \in Threads : (GetCreateLock(t) /\ UNCHANGED <<devVars, decVars, newVars, info, frameVars>>)
    \/ \E t \in Threads : (GetCreateOk(t) /\ UNCHANGED <<devVars, decVars, newVars, info, frameVars>>)
    \/ \E t \in Threads : (GetCreateFail(t) /\ UNCHANGED <<devVars, decVars, newVars, info, frameVars>>)
    \/ \E t \in Threads : (GetLeave(t) /\ UNCHANGED <<devVars, decVars, newVars, info, frameVars>>)
    \/ \E t \in Threads, r \in PossibleHandles : (Release(t, r) /\ UNCHANGED <<devVars, decVars, newVars, info, frameVars>>)
    \/ \E t \in Threads, r \in PossibleHandles : (DropHandle(t, r) /\ UNCHANGED <<devVars, decVars, newVars, info, frameVars>>)
    \/ \E t \in Threads, r \in PossibleHandles : (IntoInner(t, r) /\ UNCHANGED <<devVars, decVars, newVars, info, frameVars>>)
    \/ \E t \in Threads : (ReturnLock(t) /\ UNCHANGED <<devVars, decVars, newVars, info, frameVars>>)
    \/ \E t \in Threads : (ReturnFreeLock(t) /\ UNCHANGED <<devVars, decVars, newVars, info, frameVars>>)
    \/ \E t \in Threads : (ReturnFree(t) /\ UNCHANGED <<devVars, decVars, newVars, info, frameVars>>)
    \/ \E t \in Threads : (ArcDrop(t) /\ UNCHANGED <<devVars, decVars, newVars, info, frameVars>>)
    \/ \E t \in Threads : (SelfDrop(t) /\ UNCHANGED <<devVars, decVars, newVars, info, frameVars>>)
    \/ (DropPool /\ UNCHANGED <<devVars, decVars, newVars, info, frameVars>>)


\* the buffer pool
Spec == Init /\ [][Next]_vars

\* the steps of DevNext, each leaving the pool and the decoders alone
DevStep ==
    \/ \E t \in Threads, index \in Indexes, codec \in Codecs, device \in DeviceNames : (InitDeviceForDecoding(t, index, codec, device) /\ UNCHANGED <<poolVars, decVars, newVars, info, frameVars>>)
    \/ \E t \in Threads, ty \in DeviceTypes : (InitializeCtx(t, ty) /\ UNCHANGED <<poolVars, decVars, newVars, info, frameVars>>)
    \/ \E t \in Threads : (DevLock(t) /\ UNCHANGED <<poolVars, decVars, newVars, info, frameVars>>)
    \/ \E t \in Threads : (DevCreateOk(t) /\ UNCHANGED <<poolVars, decVars, newVars, info, frameVars>>)
    \/ \E t \in Threads : (DevCreateFail(t) /\ UNCHANGED <<poolVars, decVars, newVars, info, frameVars>>)
    \/ \E t \in Threads : (DevGet(t) /\ UNCHANGED <<poolVars, decVars, newVars, info, frameVars>>)
    \/ \E t \in Threads : (DevReturn(t) /\ UNCHANGED <<poolVars, decVars, newVars, info, frameVars>>)
    \/ \E t \in Threads : (DevOpenAs(t) /\ UNCHANGED <<poolVars, decVars, newVars, info, frameVars>>)


\* the device cache starts empty, beside a pool of full capacity
DevSpecInit == Init /\ capacity_per_key = MaxCapacity

\* the device cache
DevSpec == DevSpecInit /\ [][DevStep]_vars

\* the steps of DecNext, each leaving the pool and the device cache alone
DecStep ==
    \/ \E t \in SeekTimes : (IdxSeek(t) /\ UNCHANGED <<poolVars, devVars, newVars, info, frameVars>>)
    \/ (IdxNextFrameEnd /\ UNCHANGED <<poolVars, devVars, newVars, info, frameVars>>)
    \/ (IdxNextFrameErr /\ UNCHANGED <<poolVars, devVars, newVars, info, frameVars>>)
    \/ (BrawNextFrameErrLate /\ UNCHANGED <<poolVars, devVars, newVars, info, frameVars>>)
    \/ (IdxNextFrameOk /\ UNCHANGED <<poolVars, devVars, newVars, info, frameVars>>)
    \/ \E x \in 0..1, b \in BOOLEAN : (FfSetDecode(x, b) /\ UNCHANGED <<poolVars, devVars, newVars, info, frameVars>>)
    \/ \E t \in SeekTimes : (FfSeekOk(t) /\ UNCHANGED <<poolVars, devVars, newVars, info, frameVars>>)
    \/ \E t \in SeekTimes : (FfSeekErr(t) /\ UNCHANGED <<poolVars, devVars, newVars, info, frameVars>>)
    \/ (FfCall /\ UNCHANGED <<poolVars, devVars, newVars, info, frameVars>>)
    \/ (FfReadOk /\ UNCHANGED <<poolVars, devVars, newVars, info, frameVars>>)
    \/ (FfReadEof /\ UNCHANGED <<poolVars, devVars, newVars, info, frameVars>>)
    \/ \E x \in 0..1, flushed \in BOOLEAN : (FfReadEofErr(x, flushed) /\ UNCHANGED <<poolVars, devVars, newVars, info, frameVars>>)
    \/ (FfReadErr /\ UNCHANGED <<poolVars, devVars, newVars, info, frameVars>>)
    \/ (FfRoute /\ UNCHANGED <<poolVars, devVars, newVars, info, frameVars>>)
    \/ (FfNoDecoder /\ UNCHANGED <<poolVars, devVars, newVars, info, frameVars>>)
    \/ (FfSend /\ UNCHANGED <<poolVars, devVars, newVars, info, frameVars>>)
    \/ (FfSendErr /\ UNCHANGED <<poolVars, devVars, newVars, info, frameVars>>)
    \/ (FfReceiveOk /\ UNCHANGED <<poolVars, devVars, newVars, info, frameVars>>)
    \/ (FfReceiveAgain /\ UNCHANGED <<poolVars, devVars, newVars, info, frameVars>>)
    \/ (FfReceiveErr /\ UNCHANGED <<poolVars, devVars, newVars, info, frameVars>>)
    \/ \E t \in SeekTimes : (NullSeek(t) /\ UNCHANGED <<poolVars, devVars, newVars, info, frameVars>>)
    \/ (NullNextFrame /\ UNCHANGED <<poolVars, devVars, newVars, info, frameVars>>)
    \/ \E ok \in BOOLEAN : (GetVideoInfo(ok) /\ UNCHANGED <<poolVars, devVars, newVars, frameVars>>)


\* one decoder, opened on one input
DecSpecInit ==
    PoolInit /\ capacity_per_key = MaxCapacity /\ DevInit /\ DecInit /\ NewIdle /\ info = NoInfo /\ FrameIdle

\* the decoders: one backend, opened on one input
DecSpec == DecSpecInit /\ [][DecStep]_vars

\* the decoders, with a caller and a library that go on: a call that can take a step
\* that changes something takes one
DecLive == DecSpecInit /\ [][DecStep]_vars /\ WF_vars(DecStep)

\* the steps of Decoder::new, each leaving the pool, the device cache and the decoders
\* alone
NewStep ==
    \/ (NewFilename /\ UNCHANGED <<poolVars, devVars, decVars, info, frameVars>>)
    \/ \E ok \in BOOLEAN : (NewBraw(ok) /\ UNCHANGED <<poolVars, devVars, decVars, info, frameVars>>)
    \/ \E ok \in BOOLEAN : (NewR3d(ok) /\ UNCHANGED <<poolVars, devVars, decVars, info, frameVars>>)
    \/ \E ok \in BOOLEAN : (NewFfmpeg(ok) /\ UNCHANGED <<poolVars, devVars, decVars, info, frameVars>>)
    \/ (NewNotFound /\ UNCHANGED <<poolVars, devVars, decVars, info, frameVars>>)

\* one call of Decoder::new
NewSpecInit ==
    PoolInit /\ capacity_per_key = MaxCapacity /\ DevInit /\ DecIdle /\ NewInit /\ info = NoInfo /\ FrameIdle

\* opening a decoder
NewSpec == NewSpecInit /\ [][NewStep]_vars

\* the accessors of a frame, each leaving everything else alone
FrameStep ==
    \/ \E native \in {"ok", "err", "panic"} :
          (GetCpuBuffers(native) /\ UNCHANGED <<poolVars, devVars, decVars, newVars, info>>)
    \/ \E plane \in 0..1, native \in {"ok", "err"} :
          (GetGpuTexture(plane, native) /\ UNCHANGED <<poolVars, devVars, decVars, newVars, info>>)

\* one video frame in the hands of the caller
FrameSpecInit ==
    PoolInit /\ capacity_per_key = MaxCapacity /\ DevInit /\ DecIdle /\ NewIdle /\ info = NoInfo
    /\ FrameInit

\* reading a video frame
FrameSpec == FrameSpecInit /\ [][FrameStep]_vars

TypeOK ==
    /\ capacity_per_key \in 0..MaxCapacity
    /\ Len(made) <= MaxBufs
    /\ \A t \in Threads : pc[t] \in {"idle", "get_miss", "get_creating", "ret_lock",
                                     "ret_free_lock", "ret_freeing", "ret_arc",
                                     "self_drop", "get_unwind", "get_err"}

\* ---------------------------------------------------------------- measures
\* number of idle buffers in all buckets
IdleCount == Cardinality(Places(buckets))

RECURSIVE SumFree(_)
SumFree(S) == IF S = {} THEN 0 ELSE LET b == CHOOSE x \in S : TRUE IN freeCnt[b] + SumFree(S \ {b})

\* number of factory.free calls
FreeCalls == SumFree(Bufs)

\* number of factory.create calls that returned
CreateCalls == Len(made)

\* buffers held by handles: the callers' handles, and the handles inside release or drop,
\* whose buffer is in the method's local `buf` until it is pushed or freed
HeldCount ==
    BagCardinality(live)
    + Cardinality({t \in Threads : IsSome(self[t]) /\ IsSome(Unwrap(self[t]).buf)})
    + Cardinality({t \in Threads : IsSome(tbuf[t])})

\* number of owners of buffer b: places in buckets, handles, locals of release and drop
Owners(b) ==
    Cardinality(IdleOf(buckets, b)) + HeldBy(b)
    + Cardinality({t \in Threads : tbuf[t] = Some(b)})

\* ---------------------------------------------------------------- claims
\* C1: for a pool with per-key capacity c, in every reachable state of every
\* interleaving of get, release and drop, the bucket of each key holds at most c idle
\* buffers.
C1_IdleWithinCapacity ==
    \A e \in DOMAIN buckets : Len(buckets[e]) <= capacity_per_key

\* a bucket is full (c >= 1) and a thread that found it full is freeing its buffer
C1_Witness ==
    /\ capacity_per_key >= 1
    /\ \E e \in DOMAIN buckets, t \in Threads :
          /\ Len(buckets[e]) = capacity_per_key
          /\ pc[t] = "ret_freeing"
          /\ Unwrap(self[t]).key = e

\* C2: over get, release and handle drop (no buffer taken out with into_inner), in every
\* reachable state create calls minus free calls equals the buffers idle in buckets plus
\* the buffers held by live handles.
C2_CreateFreeBalance ==
    taken = {} => CreateCalls - FreeCalls = IdleCount + HeldCount

\* two buffers were created, one was freed by a return that found its bucket full and
\* the other is idle
C2_Witness ==
    /\ taken = {}
    /\ CreateCalls >= 2
    /\ FreeCalls >= 1
    /\ IdleCount >= 1

\* C3: a buffer has one owner at a time: it is never in a bucket and in a handle, never
\* in two handles, never twice in the buckets.
C3_ExclusiveOwner ==
    \A b \in Bufs : Owners(b) <= 1

\* a handle of some key is held while another buffer of the same key is idle
C3_Witness ==
    \E r \in Handles :
        /\ r.key \in DOMAIN buckets
        /\ buckets[r.key] # <<>>

\* C4: a buffer created for a key is only stored in the bucket of that key and only held
\* by handles that get returned for that key.
C4_KeyMatches ==
    /\ \A p \in Places(buckets) : made[buckets[p[1]][p[2]]] = p[1]
    /\ \A r \in Handles : IsSome(r.buf) => made[Unwrap(r.buf)] = r.key
    /\ \A t \in Threads : IsSome(tbuf[t]) => made[Unwrap(tbuf[t])] = Unwrap(self[t]).key

\* a handle of one key is held while a buffer of another key is idle
C4_Witness ==
    \E r \in Handles, e \in DOMAIN buckets :
        /\ e # r.key
        /\ buckets[e] # <<>>

\* C5: with capacity >= 1, once a handle of key K has been released or dropped and no
\* get has taken from K since, a get(K) returns a recycled buffer and calls no create.
C5_RoundTripReuses ==
    [][\A t \in Threads, k \in Keys :
          (GetPop(t, k) /\ returned[k] /\ capacity_per_key >= 1)
              => /\ made' = made
                 /\ pc'[t] = "idle"
                 /\ \E b \in Bufs : /\ IdleOf(buckets, b) # {}
                                    /\ BagIn(NewPooledFrame(k, b), live')]_vars

\* one buffer was created, its handle returned it (the entry of its key exists), and a
\* handle holds it again
C5_Witness ==
    /\ capacity_per_key >= 1
    /\ Len(made) = 1
    /\ FreeCalls = 0
    /\ made[1] \in DOMAIN buckets
    /\ buckets[made[1]] = <<>>
    /\ BagIn(NewPooledFrame(made[1], 1), live)

\* the drop of `self` at the end of into_inner
IntoInnerDropStep(t) ==
    /\ pc[t] = "self_drop"
    /\ tmode[t] = "into_inner"
    /\ pc'[t] # "self_drop"

\* C6 as claimed: the drop of a handle whose buffer was taken with into_inner leaves the
\* buckets and the free count unchanged.
C6_DropChangesNothing ==
    [][\A t \in Threads :
          IntoInnerDropStep(t) => (buckets' = buckets /\ freeCnt' = freeCnt)]_vars

\* C6 amended: a buffer taken with into_inner is never in a bucket and never freed; the
\* drop of its handle pushes nothing, and leaves the buckets and the free count
\* unchanged unless the handle held the last reference to the pool's shared state.
C6_TakenStaysOut ==
    [][/\ \A b \in taken' : IdleOf(buckets', b) = {} /\ freeCnt'[b] = 0
       /\ \A t \in Threads :
             IntoInnerDropStep(t) =>
                 /\ \A b \in Bufs : IdleOf(buckets', b) \subseteq IdleOf(buckets, b)
                 /\ RefCount > 1 => (buckets' = buckets /\ freeCnt' = freeCnt)
                 /\ pc'[t] = "idle"]_vars

\* a handle emptied by into_inner is about to be dropped, it holds the last reference
\* to the pool's shared state and a bucket holds a buffer
C6_Witness ==
    \E t \in Threads :
        /\ pc[t] = "self_drop"
        /\ tmode[t] = "into_inner"
        /\ RefCount = 1
        /\ IdleCount >= 1

\* C7: when the pool's shared state is dropped with N idle buffers, free is called
\* exactly N times, once for each idle buffer, and no bucket holds a buffer afterwards.
C7_TeardownFreesIdle ==
    [][(innerAlive /\ ~innerAlive') =>
          /\ \A b \in Bufs : freeCnt'[b] = freeCnt[b] + Cardinality(IdleOf(buckets, b))
          /\ Places(buckets') = {}]_vars

\* the shared state is gone and two buffers of different keys, which no release could
\* have freed, were each freed once
C7_Witness ==
    /\ ~innerAlive
    /\ capacity_per_key >= 1
    /\ Len(made) >= 2
    /\ made[1] # made[2]
    /\ freeCnt[1] = 1
    /\ freeCnt[2] = 1

\* C8: over the life of a handle ended by release or by drop its buffer is pushed or
\* freed exactly once; the drop that follows a release changes neither the buckets nor
\* the free count.
C8_ReturnedOnce ==
    [][\A t \in Threads :
          /\ settles'[t] <= 1
          /\ (IsSome(self[t]) /\ self'[t] = None /\ tmode[t] \in {"release", "drop"})
                => settles[t] = 1
          /\ (pc[t] = "self_drop" /\ tmode[t] = "release" /\ pc'[t] # "self_drop")
                => (buckets' = buckets /\ freeCnt' = freeCnt /\ pc'[t] = "idle")]_vars

\* a released handle, whose buffer went back to a bucket, is about to be dropped
C8_Witness ==
    \E t \in Threads :
        /\ pc[t] = "self_drop"
        /\ tmode[t] = "release"
        /\ settles[t] = 1
        /\ IdleCount >= 1

\* C9 as claimed: a get whose factory cannot make the buffer leaves with an error value,
\* not with a panic.
C9_GetReturnsError ==
    \A t \in Threads : pc[t] \in {"get_unwind", "get_err"} => pc[t] = "get_err"

\* the part of C9 the code keeps: a failed create leaves the buckets as they were and
\* makes no handle
C9_FailureLeavesBuckets ==
    [][\A t \in Threads :
          (pc[t] = "get_creating" /\ pc'[t] \in {"get_unwind", "get_err"})
              => (buckets' = buckets /\ live' = live)]_vars

\* C10: for equal (device type, device name), lookups from any threads in any order
\* make at most one native device context; every other lookup returns the cached one.
C10_CreatedOnce ==
    /\ \A ty \in DeviceTypes, dv \in DeviceNames : nativeMade[ty, dv] <= 1
    /\ \A t \in Threads :
          (dres[t].kind = "decoding" /\ IsSome(dres[t].ctx))
              => Unwrap(dres[t].ctx) = devices[DeviceKey(dres[t].type, dres[t].device)].device_ref

\* two threads looked up the same type and name and got the same context, made once
C10_Witness ==
    \E t1, t2 \in Threads :
        /\ t1 # t2
        /\ dres[t1].kind = "decoding"
        /\ dres[t2].kind = "decoding"
        /\ IsSome(dres[t1].ctx)
        /\ dres[t1].ctx = dres[t2].ctx
        /\ dres[t1].type = dres[t2].type
        /\ dres[t1].device = dres[t2].device
        /\ nativeMade[dres[t1].type, dres[t1].device] = 1

\* C11 as claimed: a lookup for (type, n2) never returns the device that was created for
\* (type, n1) when n1 and n2 are distinct names.
C11_DistinctNamesDistinctEntries ==
    \A t \in Threads :
        (dres[t].kind = "decoding" /\ IsSome(dres[t].ctx) /\ IsSome(dres[t].device))
            => LET made_for == Unwrap(dres[t].ctx)[2]
               IN  IsSome(made_for) => made_for = dres[t].device

\* C12: a call of init_device_for_decoding(index, ..) that returns a device returns the
\* first entry i >= index (i < 20) that is not null, not of type NONE and whose device is
\* cached or was created: every entry from index to i-1 was null, of type NONE or failed
\* to create in this call; the result carries i, the entry's device type, the name of
\* the device and the entry's pixel format, and one reference was attached.
C12_FirstWorkingEntry ==
    \A t \in Threads :
        (dpc[t] = "dev_ret" /\ dres[t].kind = "decoding" /\ IsSome(dres[t].ctx)) =>
            LET c == dcall[t]
                r == dres[t]
                key == DeviceKey(r.type, c.device)
            IN  /\ r.ok
                /\ c.index <= r.index
                /\ r.index < HwConfigScanEnd
                /\ Usable(c.codec, r.index)
                /\ r.index \notin c.failed
                /\ \A j \in c.index..(r.index - 1) : Usable(c.codec, j) => j \in c.failed
                /\ r.type = GetHwConfig(c.codec, r.index).device_type
                /\ r.pix_fmt = Some(GetHwConfig(c.codec, r.index).pix_fmt)
                /\ key \in DOMAIN devices
                /\ r.ctx = Some(devices[key].device_ref)
                /\ r.name = TypeName(devices[key].type_)
                /\ r.refs = 1

\* a call with index 0 returns entry 1 after the creation for entry 0 failed
C12_Witness ==
    \E t \in Threads :
        /\ dpc[t] = "dev_ret"
        /\ dres[t].kind = "decoding"
        /\ IsSome(dres[t].ctx)
        /\ dcall[t].index = 0
        /\ dcall[t].failed = {0}
        /\ dres[t].index = 1

\* C13: when no entry from index on yields a device (each is null, of type NONE or fails
\* to create, or index is past the scanned range) the call returns the sentinel
\* (0, NONE, "", None) as a success, attaches no reference, and its caller opens the
\* decoder in software.
C13_SentinelIsSuccess ==
    [][\A t \in Threads :
          /\ (dpc'[t] = "dev_ret" /\ dres'[t].kind = "decoding"
                /\ \A j \in dcall'[t].index..(HwConfigScanEnd - 1) :
                       Usable(dcall'[t].codec, j) => j \in dcall'[t].failed)
                => dres'[t] = [kind |-> "decoding", ok |-> TRUE, index |-> 0,
                               type |-> AV_HWDEVICE_TYPE_NONE, name |-> "",
                               device |-> dcall'[t].device, ctx |-> None, refs |-> 0,
                               pix_fmt |-> None]
          /\ (dpc[t] = "dev_ret" /\ dres[t].kind = "decoding" /\ dres[t].ctx = None
                /\ dpc'[t] # "dev_ret")
                => (hwOpen'[t] = "software" /\ dpc'[t] = "open_as")]_vars

\* a call with index 0 returns the sentinel after the creation failed for both usable
\* entries of its codec
C13_Witness ==
    \E t \in Threads :
        /\ dpc[t] = "dev_ret"
        /\ dres[t].kind = "decoding"
        /\ dres[t].ctx = None
        /\ dcall[t].index = 0
        /\ dcall[t].failed = {0, 1}

C15_ZeroStreamsReturnNone ==
    [][(StreamList = <<>> /\ NextFrameReturns) => ret'.kind = "eos"]_vars

\* the exact timestamp (microseconds, rounded down) of frame n of a clip of the given rate
UnitTimestamp(n, rate) == (n * 1000000 * rate[2]) \div rate[1]

\* the nearest unit timestamp at or before t: of a frame of the clip on the
\* index-addressable backends, of a packet of the container on the container backend;
\* the first unit's when t is before it
UnitAtOrBefore(t) ==
    IF backend = "ffmpeg" THEN RescaleTs(input.packets[Landing(t)].pts)
    ELSE LET atOrBefore == {n \in 0..(frame_count - 1) : UnitTimestamp(n, frame_rate) <= t}
         IN  IF atOrBefore = {} THEN 0
             ELSE UnitTimestamp(CHOOSE n \in atOrBefore : \A k \in atOrBefore : k <= n,
                                frame_rate)

\* the decoder has at least one unit
HasUnits == IF backend = "ffmpeg" THEN input.packets # <<>> ELSE frame_count >= 1

\* C16 as claimed: on a clip with at least one unit, the next_frame that follows a
\* successful seek(t), when it does not fail on its source or engine, returns a frame
\* whose timestamp is at or after the nearest unit timestamp at or before t, and after
\* seek(0) it returns the first frame, whatever the state before the seek.
C16_SeekThenFrame ==
    [][(IsSome(sought) /\ HasUnits /\ NextFrameReturns /\ ret'.kind \notin {"err", "other"})
          => /\ ret'.kind = "frame"
             /\ ret'.ts >= UnitAtOrBefore(Unwrap(sought))
             /\ Unwrap(sought) = 0 => ret'.n = 0]_vars

\* C18 as claimed: on the container backend (here: a container of one stream, which is
\* decoded, no failure of the source or the engine) the next_frame that follows a successful seek returns a
\* frame at or after the position the seek went to, also when the seek came after the
\* end of the packets or while a fetched packet was held.
C18_SeekResetsState ==
    [][(backend = "ffmpeg" /\ IsSome(sought) /\ fpc # "idle" /\ fpc' = "idle"
          /\ faults' = 0 /\ Len(input.media) = 1 /\ decode[0])
          => /\ ret'.kind = "frame"
             /\ ret'.ts >= RescaleTs(input.packets[Landing(Unwrap(sought))].pts)]_vars

\* x is timestamp_us * rate / 1_000_000 rounded to the nearest integer, a half rounded
\* away from zero
IsRounded(x, timestamp_us, rate) ==
    LET d == rate[2] * 1000000
        q == timestamp_us * rate[1]
    IN  IF q >= 0 THEN x >= 0 /\ 2 * d * x - 2 * q <= d /\ 2 * d * x - 2 * q > 0 - d
        ELSE x <= 0 /\ 2 * q - 2 * d * x <= d /\ 2 * q - 2 * d * x > 0 - d

\* C17: on the index-addressable backends, after seek(timestamp_us) (negative and past
\* the end included) the cursor is round(timestamp_us * rate / 1_000_000) clamped to
\* [0, frame_count - 1], a valid frame index whenever frame_count >= 1.
C17_SeekClampsCursor ==
    (backend \in IndexBackends /\ ret.kind = "seek_ok" /\ frame_count >= 1) =>
        /\ current_frame \in 0..(frame_count - 1)
        /\ \E x \in -100..100 :
              /\ IsRounded(x, ret.t, frame_rate)
              /\ current_frame = (IF x < 0 THEN 0
                                  ELSE IF x > frame_count - 1 THEN frame_count - 1 ELSE x)

\* a seek past the end of a clip of two frames left the cursor on the last frame
C17_Witness ==
    /\ backend \in IndexBackends
    /\ ret.kind = "seek_ok"
    /\ ret.t = 2000000
    /\ frame_rate = <<24, 1>>
    /\ frame_count = 2
    /\ current_frame = 1

\* C19 as claimed: when next_frame reports Ok(None) on the container backend, no open
\* decoder still holds a packet whose frame was not delivered: every stream's engine
\* has been drained.
C19_AllStreamsDrained ==
    [][(backend = "ffmpeg" /\ fpc # "idle" /\ fpc' = "idle" /\ ret'.kind = "eos")
          => \A x \in Streams : decoder'[x] => engQ'[x] = <<>>]_vars

\* C20 as claimed: an engine error other than "need more input", on send_packet or on
\* receive_frame (or while reading and decoding a frame on the index-addressable
\* backends), ends the next_frame call with an error; the call does not fetch again.
C20_EngineErrorsReturned ==
    [][(FfSendErr \/ FfReceiveErr \/ IdxNextFrameErr) => (fpc' = "idle" /\ ret'.kind = "err")]_vars

\* C21 as claimed: next_frame reports Ok(None) only at the end of the stream; a call in
\* which an engine failed, also while draining after the source ended, does not end
\* with Ok(None).
C21_NoneOnlyAtEnd ==
    [][(NextFrameReturns /\ ret'.kind = "eos") => ~FfReceiveErr]_vars

\* the unit whose frame stream x is owed next, -1 when none is owed
NextOwed(x) ==
    IF IsSome(owed[x]) /\ Unwrap(owed[x]) # <<>> THEN Head(Unwrap(owed[x])) ELSE 0 - 1

SameLetter(c, d) == c = d \/ \E k \in 1..26 : {c, d} = {UpperCase[k], LowerCase[k]}

\* the string ends with the extension, whatever the case of its letters
HasExtension(s, ext) ==
    /\ Len(s) >= Len(ext)
    /\ \A i \in 1..Len(ext) : SameLetter(s[Len(s) - Len(ext) + i], ext[i])

\* the hint Decoder::new matches: the local `filename`, empty when it is None
Hint == IF IsSome(filename) THEN Unwrap(filename) ELSE <<>>

\* the backend the claimed priority order selects among the backends of the build
Selected ==
    IF "braw" \in features /\ HasExtension(Hint, <<".", "b", "r", "a", "w">>) THEN "braw"
    ELSE IF "r3d" \in features /\ (HasExtension(Hint, <<".", "r", "3", "d">>)
                                     \/ HasExtension(Hint, <<".", "n", "e", "v">>)) THEN "r3d"
    ELSE IF "ffmpeg" \in features THEN "ffmpeg"
    ELSE "none"

OwnName ==
    CASE new_input.kind \in {"FileOrUrl", "Callback"} -> Some(new_input.name)
      [] new_input.kind = "FileList" /\ new_input.names # {} ->
            Some(CHOOSE n \in new_input.names : \A m \in new_input.names : ~StrLess(m, n))
      [] OTHER -> None

\* C24: the hint is the "filename" option when the options have one, else the name of
\* the input (path, URL or callback filename), else the first name of a file list; it
\* is empty when there is no option and the input has no name.
C24_HintPrecedence ==
    npc \in {"match", "done"} =>
        /\ "filename" \in DOMAIN new_options => Hint = new_options["filename"]
        /\ ("filename" \notin DOMAIN new_options /\ IsSome(OwnName)) => Hint = Unwrap(OwnName)
        /\ ("filename" \notin DOMAIN new_options /\ ~IsSome(OwnName)) => Hint = <<>>

\* the option "filename" = "a.braw" won over the input's own name "d.mp4"
C24_Witness ==
    /\ npc = "done"
    /\ new_input = IoType("FileOrUrl", <<"d", ".", "m", "p", "4">>, {})
    /\ "filename" \in DOMAIN new_options
    /\ new_options["filename"] = <<"a", ".", "b", "r", "a", "w">>
    /\ Hint = <<"a", ".", "b", "r", "a", "w">>

\* the decode_resolution value the opened backend looked at
GivenScale ==
    IF new_ret.inner = "braw"
    THEN SelectCustomOption(new_options, <<"braw.decode_resolution", "decode_resolution">>)
    ELSE SelectCustomOption(new_options, <<"r3d.decode_resolution", "decode_resolution">>)

\* the two strings are the same word, whatever the case of their letters
SameWord(v, w) == Len(v) = Len(w) /\ \A i \in 1..Len(v) : SameLetter(v[i], w[i])

\* the words and the fractions of the decode-resolution scales, by divisor
ScaleWords ==
    << <<1, <<"f", "u", "l", "l">>, <<"1">> >>,
       <<2, <<"h", "a", "l", "f">>, <<"1", "/", "2">> >>,
       <<4, <<"q", "u", "a", "r", "t", "e", "r">>, <<"1", "/", "4">> >>,
       <<8, <<"e", "i", "g", "h", "t", "h">>, <<"1", "/", "8">> >>,
       <<16, <<"s", "i", "x", "t", "e", "e", "n", "t", "h">>, <<"1", "/", "1", "6">> >> >>

\* the divisor a value names as a word or as a fraction, 0 when it names none
NamedDivisor(v) ==
    LET hits == {k \in 1..5 : SameWord(v, ScaleWords[k][2]) \/ v = ScaleWords[k][3]}
    IN  IF hits = {} THEN 0 ELSE ScaleWords[CHOOSE k \in hits : TRUE][1]

\* the scale of a backend opened without a decode_resolution
DefaultScale == IF new_ret.inner = "r3d" THEN Some("FullResPremium") ELSE None

\* C28 as claimed: BRAW and R3D each recognize the five words in any letter case and
\* the five fractions, a word and its fraction giving the same scale; every other
\* value gives a warning and the default scale.
C28_EveryTokenEveryBackend ==
    (npc = "done" /\ new_ret.kind = "ok" /\ new_ret.inner \in {"braw", "r3d"}
        /\ IsSome(GivenScale)) =>
        IF NamedDivisor(Unwrap(GivenScale)) # 0
        THEN /\ ~new_ret.warned
             /\ IsSome(new_ret.scale)
             /\ ModeDivisor(Unwrap(new_ret.scale)) = NamedDivisor(Unwrap(GivenScale))
        ELSE new_ret.warned /\ new_ret.scale = DefaultScale

\* the divisor the value names for the opened backend: white space around the value
\* does not count, BRAW has no sixteenth, and R3D also knows "half_good"
BackendDivisor ==
    LET v == Trim(Unwrap(GivenScale))
        d == NamedDivisor(v)
    IN  IF new_ret.inner = "r3d" /\ SameWord(v, <<"h", "a", "l", "f", "_", "g", "o", "o", "d">>)
        THEN 2
        ELSE IF new_ret.inner = "braw" /\ d = 16 THEN 0
        ELSE d

\* C28, amended: R3D recognizes the five words in any letter case and the five
\* fractions, and "half_good"; BRAW recognizes full, half, quarter, eighth and 1, 1/2,
\* 1/4, 1/8; white space around the value is dropped; a word and its fraction give the
\* same scale; every other value (on BRAW also sixteenth and 1/16) gives a warning and
\* the default scale, and the open call succeeds.
C28_ScaleTokens ==
    (npc = "done" /\ new_ret.kind = "ok" /\ new_ret.inner \in {"braw", "r3d"}
        /\ IsSome(GivenScale)) =>
        IF BackendDivisor # 0
        THEN /\ ~new_ret.warned
             /\ IsSome(new_ret.scale)
             /\ ModeDivisor(Unwrap(new_ret.scale)) = BackendDivisor
        ELSE new_ret.warned /\ new_ret.scale = DefaultScale

\* R3D was opened with decode_resolution "Sixteenth" and decodes at one sixteenth
C28_Witness ==
    /\ npc = "done"
    /\ new_ret.kind = "ok"
    /\ new_ret.inner = "r3d"
    /\ GivenScale = Some(<<"S", "i", "x", "t", "e", "e", "n", "t", "h">>)
    /\ new_ret.scale = Some("SixteenthResGood")
    /\ ~new_ret.warned

\* what get_video_info returns for the opened input when its native calls succeed,
\* told from the input alone: the video stream and the number of its units
InfoOfInput ==
    IF backend = "ffmpeg"
    THEN IF \E x \in Streams : Medium(x) = "video"
         THEN LET x == CHOOSE v \in Streams : Medium(v) = "video"
              IN  [kind |-> "ok", stream |-> x,
                   frame_count |-> Len(SelectSeq(input.packets, LAMBDA p : p.stream = x)),
                   fps |-> <<25, 1>>]
         ELSE [kind |-> "err", error |-> "StreamNotFound"]
    ELSE IF backend \in IndexBackends
    THEN [kind |-> "ok", stream |-> 0, frame_count |-> frame_count, fps |-> frame_rate]
    ELSE [kind |-> "err", error |-> "DecoderNotFound"]

C27_AccessorsExclusive == ~(cpu_ok /\ gpu_ok)

\* the decoder and every frame it produced are gone: no BufferPool value and no
\* PooledFrame is held, and no drop is still running
AllDropped ==
    /\ ~poolAlive
    /\ live = EmptyBag
    /\ \A t \in Threads : pc[t] = "idle" /\ self[t] = None /\ tbuf[t] = None /\ ~tpool[t]

InFactory == {t \in Threads : pc[t] \in {"get_creating", "ret_freeing"}}

\* C29 as claimed: while a thread is inside a factory call (create or free) no thread
\* holds the lock of the bucket map.
C29_BucketLockNotHeldInFactory ==
    InFactory # {} => bucketsLock = None

\* the part of C29 that the code keeps: a get holds no bucket lock while it creates
C29_GetCreatesUnlocked ==
    \A t \in Threads : pc[t] \in {"get_miss", "get_creating"} => bucketsLock # Some(t)

\* the key of the DEVICES entry the call of thread t is about
CallKey(t) == DeviceKey(dcall[t].type, dcall[t].device)

\* C30 as claimed: the DEVICES lock is not held while a native device context is being
\* created, so a thread that is about to look up one key is never kept waiting by the
\* native creation another thread runs for another key.
C30_LookupNotBlockedByNative ==
    \A t, u \in Threads :
        (dpc[t] = "dev_creating" /\ dpc[u] = "dev_lock" /\ CallKey(t) # CallKey(u))
            => devLock = None

C32_EofFlushesAll ==
    [][(~packets_ended /\ packets_ended') =>
          \A x, y \in Streams :
              (decoder[x] /\ ~engEof'[x] /\ decoder[y] /\ ~engEof'[y]) => x = y]_vars

\* the part of C32 that the code keeps: the flag is never cleared, and once it is set
\* no unit is fetched from the source, none is submitted to an engine and no decoder is
\* signalled again
C32_NothingAfterEnd ==
    [][packets_ended =>
          /\ packets_ended'
          /\ current_packet' = None
          /\ engQ' = engQ \/ \E x \in Streams : Len(engQ'[x]) < Len(engQ[x])
          /\ engEof' = engEof]_vars

\* C33 as claimed: every call of next_frame returns (a frame, no more frames or an
\* error), also when the source keeps reporting a fetch failure other than Eof.
C33_NextFrameTerminates == (fpc # "idle") ~> (fpc = "idle")

\* the part of C33 that the code keeps: on a source that does not stay unreadable every
\* call of next_frame returns
C33_TerminatesOnReadableSource == (fpc # "idle" /\ input.broken = 0) ~> (fpc = "idle")

\* C34 as claimed: the decoder of a stream is opened only by a next_frame that routes a
\* unit of that stream while its decode flag is set, and a decoder that was opened stays.
C34_OpenedOnFirstUnit ==
    [][\A x \in Streams :
          /\ (decoder'[x] /\ ~decoder[x]) =>
                (fpc = "route" /\ IsSome(current_packet) /\ PacketStream = x /\ decode[x])
          /\ decoder[x] => decoder'[x]]_vars

\* the part of C34 that the code keeps: a decoder is opened by the routing step of
\* next_frame only, for the stream that step routes to and with its decode flag set, and
\* a decoder that was opened stays
C34_OpenedOnceWhenRouted ==
    [][\A x \in Streams :
          /\ (decoder'[x] /\ ~decoder[x]) => (fpc = "route" /\ PacketStream = x /\ decode[x])
          /\ decoder[x] => decoder'[x]]_vars

\* the threads that hold a lock of the pool
LockHolders == {t \in Threads : bucketsLock = Some(t) \/ factoryLock = Some(t)}

\* the lock thread t is waiting for, if it waits: the factory in get after a miss and
\* in a return that found the bucket full, the buckets at the start of a return
Awaits(t) ==
    IF pc[t] \in {"get_miss", "ret_free_lock"} THEN factoryLock
    ELSE IF pc[t] = "ret_lock" THEN bucketsLock
    ELSE None

\* C35: get, release, handle drop and the teardown of the pool's shared state never
\* deadlock: no thread waits for a lock it holds, no two threads wait for each other,
\* whenever a call is running some running call can take its next step, and a thread
\* that holds a lock holds a reference to the shared state and is not at the point where
\* it drops it, so the teardown (which takes both locks) never finds one taken.
C35_NoDeadlock ==
    /\ \A t \in Threads : Awaits(t) # Some(t)
    /\ \A t, u \in Threads : ~(Awaits(t) = Some(u) /\ Awaits(u) = Some(t))
    /\ (\E t \in Threads : pc[t] # "idle") =>
          \E t \in Threads : pc[t] # "idle" /\ Awaits(t) = None
    /\ \A t \in LockHolders :
          /\ pc[t] \in {"get_creating", "ret_free_lock", "ret_freeing"}
          /\ IF pc[t] = "get_creating" THEN poolAlive ELSE tpool[t]
    /\ LockHolders # {} => innerAlive

\* one thread is inside free with both locks while the other waits for the buckets lock
\* to return its buffer
C35_Witness ==
    \E t, u \in Threads :
        /\ pc[t] = "ret_freeing"
        /\ bucketsLock = Some(t)
        /\ factoryLock = Some(t)
        /\ pc[u] = "ret_lock"
        /\ Awaits(u) = Some(t)

\* C36 as claimed: requests with different device types never share a cache entry,
\* whatever their names: a successful request is handed a context that was created for
\* its own device type.
C36_TypesNeverShareEntry ==
    \A t \in Threads :
        (dres[t].kind = "decoding" /\ dres[t].ok /\ IsSome(dres[t].ctx))
            => Unwrap(dres[t].ctx)[1] = dres[t].type

\* C37 as claimed: on the index-addressable backends a next_frame that returns a frame
\* advances the cursor by exactly one, and a next_frame that returns an error or no more
\* frames leaves the cursor where it was.
C37_CursorStepsOnFramesOnly ==
    [][(backend \in IndexBackends /\ NextFrameReturns) =>
          current_frame' = current_frame + (IF ret'.kind = "frame" THEN 1 ELSE 0)]_vars

\* the part of C37 that the code keeps: the R3D backend moves the cursor only with a
\* frame, and on both backends a returned frame is the frame under the cursor, which then
\* advances by one
C37_FrameUnderCursor ==
    [][(backend \in IndexBackends /\ NextFrameReturns) =>
          /\ backend = "r3d" =>
                current_frame' = current_frame + (IF ret'.kind = "frame" THEN 1 ELSE 0)
          /\ ret'.kind = "frame" => (ret'.n = current_frame /\ current_frame' = current_frame + 1)
          /\ ret'.kind = "eos" <=> current_frame >= frame_count]_vars

\* C38 as claimed: on the index-addressable backends next_frame computes the timestamp
\* of its frame without a division by zero, whatever the rate, and a seek to the
\* timestamp reported for frame n puts the cursor on frame n again, so that the next
\* next_frame returns frame n.
C38_SeekToReportedTimestamp ==
    [][(backend \in IndexBackends /\ NextFrameReturns) =>
          /\ ret'.kind # "panic"
          /\ ret'.kind = "frame" => SeekFrame(ret'.ts, frame_rate, frame_count) = ret'.n]_vars

\* the same for the clips whose rate is at least 1, where nothing divides by zero
C38_RoundTripAtRatesFromOne ==
    [][(backend \in IndexBackends /\ NextFrameReturns /\ ret'.kind = "frame") =>
          SeekFrame(ret'.ts, frame_rate, frame_count) = ret'.n]_vars

\* the part of C38 that the code keeps: at an integer rate the seek to the reported
\* timestamp of frame n goes to frame n
C38_RoundTripAtIntegerRates ==
    [][(backend \in IndexBackends /\ NextFrameReturns /\ ret'.kind = "frame"
          /\ frame_rate[2] = 1) =>
          SeekFrame(ret'.ts, frame_rate, frame_count) = ret'.n]_vars

\* C39: in the container backend a fetched unit is passed to send_packet at most once,
\* by the call that fetched it and to the engine of its own stream; a call that starts
\* with a held unit submits nothing and only receives; a unit is fetched only when none
\* is held, and the held unit is let go only when receive_frame gave no frame for it or
\* its stream has no decoder.
C39_SubmittedAtMostOnce ==
    /\ [](submits <= 1)
    /\ [][/\ submits' > submits =>
                (fetch_new_packet /\ IsSome(current_packet) /\ decoder[PacketStream]
                 /\ submits = 0)
          /\ \A x \in Streams :
                Len(engQ'[x]) > Len(engQ[x]) =>
                   /\ x = PacketStream
                   /\ engQ'[x] = Append(engQ[x], input.packets[Unwrap(current_packet)].pts)
                   /\ submits' = submits + 1
          /\ (fpc = "idle" /\ fpc' # "idle" /\ IsSome(current_packet)) => ~fetch_new_packet'
          /\ (IsSome(current_packet') /\ current_packet' # current_packet) =>
                (current_packet = None /\ fpc = "read")
          /\ (IsSome(current_packet) /\ current_packet' = None) =>
                \/ (fpc = "receive" /\ ~(fpc' = "idle" /\ ret'.kind = "frame"))
                \/ (fpc = "decode" /\ ~decoder[PacketStream])
         ]_vars

\* a call that started with a held unit, submitted once by an earlier call, is at
\* receive_frame without having submitted it again
C39_Witness ==
    /\ backend = "ffmpeg"
    /\ fpc = "receive"
    /\ IsSome(current_packet)
    /\ ~fetch_new_packet
    /\ submits = 1
    /\ ret.kind = "frame"

\* C40: a stream of the container backend whose decode flag is off has no decoder, its
\* engine is never given a unit and no frame of it is returned; a unit of that stream is
\* held only inside the call that fetched it, is never passed to send_packet, and the
\* step that ends that call lets the unit go and returns Frame::Other.
C40_DisabledStreamNeverDecoded ==
    /\ [](backend = "ffmpeg" =>
            /\ \A x \in Streams :
                  ~decode[x] =>
                     /\ ~decoder[x]
                     /\ engQ[x] = <<>>
                     /\ ~(ret.kind = "frame" /\ ret.stream = x)
            /\ (IsSome(current_packet) /\ PacketStream \in Streams /\ ~decode[PacketStream]) =>
                  /\ fpc \in {"route", "decode"}
                  /\ fetch_new_packet
                  /\ ~packets_ended
                  /\ submits = 0)
    /\ [][(backend = "ffmpeg" /\ IsSome(current_packet) /\ PacketStream \in Streams
           /\ ~decode[PacketStream] /\ fpc = "decode") =>
             /\ fpc' = "idle"
             /\ ret' = [kind |-> "other"]
             /\ current_packet' = None
             /\ engQ' = engQ
             /\ decoder' = decoder
         ]_vars

\* a call returned Frame::Other for a unit of a video or audio stream whose decode flag
\* is off: the container has only video and audio streams
C40_Witness ==
    /\ backend = "ffmpeg"
    /\ fpc = "idle"
    /\ ret.kind = "other"
    /\ current_packet = None
    /\ Streams # {}
    /\ \A x \in Streams : Medium(x) \in {"video", "audio"}
    /\ \E x \in Streams : ~decode[x] /\ ~decoder[x]

====
